---- MODULE Spec2Model ----
(***************************************************************************)
(* Tenant-ordered messaging and request-safety layer of the Demographics   *)
(* API: the session (FIFO) queue service and its broker queues, the batch  *)
(* consumer, the idempotency middleware and the rate-limit gate.           *)
(***************************************************************************)
EXTENDS Integers, Sequences, FiniteSets, TLC

\* ------------------------------------------------------------------------
\* Bounds of the model
\* ------------------------------------------------------------------------
MaxMessages == 2
MaxLen == 2

\* ------------------------------------------------------------------------
\* Values
\* ------------------------------------------------------------------------
None == "none"
Undefined == "undefined"
\* An absent (or empty, equally falsy) session id.
NoSessionId == << >>
\* No session lock held.
NoSession == << >>
\* No message in the hands of a consumer.
NoMessage == << >>

\* Law firms (tenant identifiers), as character sequences.
LawFirms == { <<"A", "1">>, <<"a", "1">>, <<"b", "-">> }

Consumers == { "c1", "c2" }

\* ------------------------------------------------------------------------
\* FifoQueueService: names and session ids
\* ------------------------------------------------------------------------
queueNames ==
  [ demographics |-> "demographics-processing-fifo",
    webhooks     |-> "webhook-notifications-fifo",
    documents    |-> "document-processing",
    deadLetter   |-> "dead-letter-processing" ]

SessionQueueTypes == { "demographics", "webhooks" }

\* --max-delivery-count of the two session queues.
MaxDeliveryCountDemographics == 3
MaxDeliveryCountWebhooks == 5

MaxDeliveryCount(queueName) ==
  IF queueName = queueNames.demographics
    THEN MaxDeliveryCountDemographics
    ELSE MaxDeliveryCountWebhooks

\* String.prototype.toLowerCase on one character.
ToLowerCase(ch) ==
  CASE ch = "A" -> "a"
    [] ch = "B" -> "b"
    [] OTHER -> ch

\* /[^a-z0-9]/ on one character.
IsLowerAlnum(ch) == ch \in { "a", "b", "0", "1" }

RECURSIVE ReplaceNonAlnum(_)
ReplaceNonAlnum(s) ==
  IF s = << >> THEN << >>
  ELSE << (IF IsLowerAlnum(ToLowerCase(Head(s))) THEN ToLowerCase(Head(s)) ELSE "_") >>
         \o ReplaceNonAlnum(Tail(s))

\* `${type}_${identifier.toLowerCase().replace(/[^a-z0-9]/g, '_')}`
generateSessionId(type, identifier) ==
  << type, "_" >> \o ReplaceNonAlnum(identifier)

\* The characters of the identifiers given to generateSessionId, and the
\* identifiers of at most MaxLen characters.
IdentifierChars == { "A", "a", "b", "1", "-" }

Identifiers == UNION { [ 1..n -> IdentifierChars ] : n \in 1..MaxLen }

\* The message type each add* method stamps for the queue it sends to.
TypeOfQueue(queueType) ==
  IF queueType = "demographics" THEN "demographics" ELSE "webhook"

SessionKeys ==
  { << queueNames[qt], generateSessionId(TypeOfQueue(qt), lf) >> :
      qt \in SessionQueueTypes, lf \in LawFirms }

VARIABLES
  senders,        \* FifoQueueService.senders: queue names with a cached sender
  sent,           \* per (queue, session): the caller of each message handed to sender.sendMessages, in call order
  sessionQueue,   \* broker: per (queue, session) the active messages, in sequence order
  scheduled,      \* broker: messages sent with scheduledEnqueueTimeUtc, not yet active
  deadLettered,   \* broker: the messages moved to the dead-letter sub-queue
  holding,        \* per consumer: the (queue, session) whose lock it holds, or NoSession
  current         \* per consumer: id of the message its handler is running on, or NoMessage

queueVars ==
  << senders, sent, sessionQueue, scheduled, deadLettered,
     holding, current >>

VARIABLES
  batchSize,    \* messages.length of the invocation
  chunkStart,   \* the loop index i: 0-based index of the first message of the chunk
  pcBatch,      \* position of the invocation
  result,       \* per message: the promise of its handler
  logged,       \* the {successful, failed} pairs logged, one per chunk
  acked         \* per message: number of times the host completed (acknowledged) it

batchVars == << batchSize, chunkStart, pcBatch, result, logged, acked >>

VARIABLES
  now,          \* the clock, in ticks
  counters,     \* rate limiter: per credential and window type, windowStart and count
  admittedAt,   \* per credential: the times at which checkRateLimit allowed a request
  lastCall      \* the latest checkRateLimit call: credential, time, counters before, result

rateVars == << now, counters, admittedAt, lastCall >>

VARIABLES
  req,                 \* per request: its headers, its position in the middleware chain, its response
  usageCount,          \* per credential: usage_count, bumped by every successful validation
  idempotencyRecords,  \* idempotency store: the stored records
  storePending,        \* the setImmediate callbacks not yet run: responses waiting to be stored
  demographics         \* database: the persisted demographics records

gateVars == << req, usageCount, idempotencyRecords, storePending, demographics >>

VARIABLES
  invocation           \* per HTTP function: the position of its invocation, its context, its response

functionVars == << invocation >>

VARIABLES
  generated            \* the two latest calls of generateSessionId: arguments and result

sessionIdVars == << generated >>

VARIABLES
  delivery             \* one message of the batch consumer, followed through its callback

dispatchVars == << delivery >>

VARIABLES
  outbox               \* calls of sendMessage with any payload: what the broker holds, and the last call
enqueueVars == << outbox >>

VARIABLES
  proc                 \* the server process through SIGTERM: its HTTP server, its session receivers
shutdownVars == << proc >>

VARIABLES
  tracked              \* one message of a session queue, followed through its deliveries
retryVars == << tracked >>

VARIABLES
  wire                 \* what the broker receives for one list of messages, sent both ways
sendBatchVars == << wire >>

VARIABLES
  batchRoute           \* one request to POST /api/v1/demographics/batch in its route handler
routeVars == << batchRoute >>

VARIABLES
  Demographics,        \* the rows of the Demographics table
  lastRead             \* the last GET /api/v1/demographics/:id: its caller and its answer
tenantVars == << Demographics, lastRead >>

VARIABLES
  writes               \* concurrent POST /api/v1/demographics of one tenant and its two sessions
orderVars == << writes >>

VARIABLES
  bus                  \* the senders and session receivers of one FifoQueueService
connectionVars == << bus >>

\* What the actions of one part of the system leave unchanged.
nonQueueVars == << batchVars, rateVars, gateVars, functionVars, sessionIdVars, dispatchVars, enqueueVars, shutdownVars, retryVars, sendBatchVars, routeVars, tenantVars, orderVars, connectionVars >>
nonBatchVars == << queueVars, rateVars, gateVars, functionVars, sessionIdVars, dispatchVars, enqueueVars, shutdownVars, retryVars, sendBatchVars, routeVars, tenantVars, orderVars, connectionVars >>
nonRateVars  == << queueVars, batchVars, gateVars, functionVars, sessionIdVars, dispatchVars, enqueueVars, shutdownVars, retryVars, sendBatchVars, routeVars, tenantVars, orderVars, connectionVars >>

vars == << queueVars, batchVars, rateVars, gateVars, functionVars, sessionIdVars, dispatchVars, enqueueVars, shutdownVars, retryVars, sendBatchVars, routeVars, tenantVars, orderVars, connectionVars >>

\* ------------------------------------------------------------------------
\* FifoQueueService.sendMessage and its callers
\* ------------------------------------------------------------------------

\* Sum of the lengths of f[x], x in S.
RECURSIVE SumOver(_, _)
SumOver(f, S) ==
  IF S = {} THEN 0
  ELSE LET x == CHOOSE y \in S : TRUE IN Len(f[x]) + SumOver(f, S \ { x })

\* Number of messages sent so far.
TotalSent == SumOver(sent, SessionKeys)

\* getSender: the sender of a queue is created on first use and cached.
getSender(queueName) == senders \cup { queueName }

\* sendMessage(queueType, message): builds the envelope (id, sessionId, subject,
\* scheduledEnqueueTimeUtc) and hands it to the broker. The broker appends an
\* unscheduled message to its session; a scheduled one waits until activated.
sendMessage(queueType, message) ==
  LET queueName == queueNames[queueType]
      key == << queueName, message.sessionId >>
      fifoMessage ==
        [ id            |-> << queueName, message.sessionId, Len(sent[key]) + 1 >>,
          queue         |-> queueName,
          type          |-> message.type,
          sessionId     |-> message.sessionId,
          subject       |-> message.type,
          priority      |-> message.priority,
          retry_count   |-> message.retry_count,
          max_retries   |-> message.max_retries,
          scheduled_for |-> message.scheduled_for,
          origin        |-> message.origin,
          deliveryCount |-> 0 ]
  IN  /\ senders' = getSender(queueName)
      /\ sent' = [ sent EXCEPT ![key] = Append(@, message.origin) ]
      /\ IF fifoMessage.scheduled_for # Undefined
           THEN /\ scheduled' = scheduled \cup { fifoMessage }
                /\ UNCHANGED sessionQueue
           ELSE /\ sessionQueue' =
                     [ sessionQueue EXCEPT ![key] = Append(@, fifoMessage) ]
                /\ UNCHANGED scheduled

\* Mutant: every demographics message is sent with a scheduled enqueue time.
addDemographicsMessageDelayed(lawFirm, priority) ==
  sendMessage("demographics",
    [ type          |-> "demographics",
      sessionId     |-> generateSessionId("demographics", lawFirm),
      priority      |-> priority,
      retry_count   |-> 0,
      max_retries   |-> 3,
      scheduled_for |-> "later",
      origin        |-> "addDemographicsMessage" ])

\* addDemographicsMessage(lawFirm, demographicsData, priority)
addDemographicsMessage(lawFirm, priority) ==
  sendMessage("demographics",
    [ type          |-> "demographics",
      sessionId     |-> generateSessionId("demographics", lawFirm),
      priority      |-> priority,
      retry_count   |-> 0,
      max_retries   |-> 3,
      scheduled_for |-> Undefined,
      origin        |-> "addDemographicsMessage" ])

\* addWebhookMessage(lawFirm, webhookData, priority)
addWebhookMessage(lawFirm, priority) ==
  sendMessage("webhooks",
    [ type          |-> "webhook",
      sessionId     |-> generateSessionId("webhook", lawFirm),
      priority      |-> priority,
      retry_count   |-> 0,
      max_retries   |-> 5,
      scheduled_for |-> Undefined,
      origin        |-> "addWebhookMessage" ])

\* A caller of addDemographicsMessage.
AddDemographicsMessage(lawFirm, priority) ==
  /\ TotalSent < MaxMessages
  /\ addDemographicsMessage(lawFirm, priority)
  /\ UNCHANGED << deadLettered, holding, current >>
  /\ UNCHANGED nonQueueVars

\* A caller of addWebhookMessage.
AddWebhookMessage(lawFirm, priority) ==
  /\ TotalSent < MaxMessages
  /\ addWebhookMessage(lawFirm, priority)
  /\ UNCHANGED << deadLettered, holding, current >>
  /\ UNCHANGED nonQueueVars

\* A direct call of sendMessage with scheduled_for set.
SendScheduledMessage(lawFirm) ==
  /\ TotalSent < MaxMessages
  /\ sendMessage("demographics",
       [ type          |-> "demographics",
         sessionId     |-> generateSessionId("demographics", lawFirm),
         priority      |-> 5,
         retry_count   |-> 0,
         max_retries   |-> 3,
         scheduled_for |-> "later",
         origin        |-> "sendMessage" ])
  /\ UNCHANGED << deadLettered, holding, current >>
  /\ UNCHANGED nonQueueVars

\* The broker activates a scheduled message: it joins the tail of its session.
ActivateScheduled ==
  /\ \E m \in scheduled :
       /\ scheduled' = scheduled \ { m }
       /\ sessionQueue' = [ sessionQueue EXCEPT ![<< m.queue, m.sessionId >>] = Append(@, m) ]
       /\ UNCHANGED << senders, sent, deadLettered, holding, current >>
  /\ UNCHANGED nonQueueVars

\* ------------------------------------------------------------------------
\* Session receivers (createSessionReceiver) and the broker's delivery rules
\* ------------------------------------------------------------------------

SessionLocked(key) == \E c \in Consumers : holding[c] = key

SessionKeysOf(queueType) == { k \in SessionKeys : k[1] = queueNames[queueType] }

\* Mutant: acceptSession hands out a session whatever its lock.
CreateSessionReceiverUnlocked(c, queueType, sessionId) ==
  /\ holding[c] = NoSession
  /\ current[c] = NoMessage
  /\ \E key \in SessionKeysOf(queueType) :
       /\ IF sessionId # NoSessionId
            THEN key[2] = sessionId
            ELSE sessionQueue[key] # << >>
       /\ holding' = [ holding EXCEPT ![c] = key ]
  /\ UNCHANGED << senders, sent, sessionQueue, scheduled, deadLettered, current >>
  /\ UNCHANGED nonQueueVars

\* createSessionReceiver(queueType, sessionId?): acceptSession of the named session,
\* or acceptNextSession of any session that has messages; either way the broker
\* grants the session lock only while no other receiver holds it.
CreateSessionReceiver(c, queueType, sessionId) ==
  /\ holding[c] = NoSession
  /\ current[c] = NoMessage
  /\ \E key \in SessionKeysOf(queueType) :
       /\ IF sessionId # NoSessionId
            THEN key[2] = sessionId
            ELSE sessionQueue[key] # << >>
       /\ ~ SessionLocked(key)
       /\ holding' = [ holding EXCEPT ![c] = key ]
  /\ UNCHANGED << senders, sent, sessionQueue, scheduled, deadLettered, current >>
  /\ UNCHANGED nonQueueVars

\* The broker's rule when a delivered message is released without being settled
\* (abandon, or its lock is lost): it stays at the head of its session, unless its
\* delivery count has reached the queue's max delivery count: then it is moved to
\* the dead-letter sub-queue.
ReleaseHead(key) ==
  LET m == Head(sessionQueue[key])
  IN  IF m.deliveryCount >= MaxDeliveryCount(key[1])
        THEN /\ sessionQueue' = [ sessionQueue EXCEPT ![key] = Tail(@) ]
             /\ deadLettered' = deadLettered \cup { m }
        ELSE UNCHANGED << sessionQueue, deadLettered >>

\* receiver.receiveMessages: the holder of the session lock is handed the head of
\* the session (peek-lock); the broker counts the delivery.
ReceiveMessage(c) ==
  /\ holding[c] # NoSession
  /\ current[c] = NoMessage
  /\ sessionQueue[holding[c]] # << >>
  /\ LET key == holding[c]
         m   == Head(sessionQueue[key])
     IN  /\ sessionQueue' =
               [ sessionQueue EXCEPT
                   ![key] = << [ m EXCEPT !.deliveryCount = @ + 1 ] >> \o Tail(@) ]
         /\ current' = [ current EXCEPT ![c] = m.id ]
  /\ UNCHANGED << senders, sent, scheduled, deadLettered, holding >>
  /\ UNCHANGED nonQueueVars

\* The handler succeeded: receiver.completeMessage removes the message.
CompleteMessage(c) ==
  /\ holding[c] # NoSession
  /\ current[c] # NoMessage
  /\ sessionQueue' = [ sessionQueue EXCEPT ![holding[c]] = Tail(@) ]
  /\ current' = [ current EXCEPT ![c] = NoMessage ]
  /\ UNCHANGED << senders, sent, scheduled, deadLettered, holding >>
  /\ UNCHANGED nonQueueVars

\* The handler threw: the consumer dead-letters the message once its retry count
\* (the deliveries before this one, plus this failure) exceeds the message's own
\* max_retries, and abandons it otherwise.
ProcessingFailed(c) ==
  /\ holding[c] # NoSession
  /\ current[c] # NoMessage
  /\ LET key == holding[c]
         m   == Head(sessionQueue[key])
     IN  IF m.deliveryCount > m.max_retries
           THEN /\ sessionQueue' = [ sessionQueue EXCEPT ![key] = Tail(@) ]
                /\ deadLettered' = deadLettered \cup { m }
           ELSE ReleaseHead(key)
  /\ current' = [ current EXCEPT ![c] = NoMessage ]
  /\ UNCHANGED << senders, sent, scheduled, holding >>
  /\ UNCHANGED nonQueueVars

\* Mutant: when the session lock is lost the message in flight is removed from the
\* session as if it had been completed.
SessionLockLostCompleting(c) ==
  /\ holding[c] # NoSession
  /\ IF current[c] # NoMessage
       THEN /\ sessionQueue' = [ sessionQueue EXCEPT ![holding[c]] = Tail(@) ]
            /\ UNCHANGED deadLettered
       ELSE UNCHANGED << sessionQueue, deadLettered >>
  /\ holding' = [ holding EXCEPT ![c] = NoSession ]
  /\ UNCHANGED << senders, sent, scheduled, current >>
  /\ UNCHANGED nonQueueVars

\* The session lock is not renewed in time (auto-renewal stops after
\* maxAutoLockRenewalDurationInMs): the broker reclaims the session and releases
\* the message in flight. The handler of the former holder is still running.
SessionLockLost(c) ==
  /\ holding[c] # NoSession
  /\ IF current[c] # NoMessage
       THEN ReleaseHead(holding[c])
       ELSE UNCHANGED << sessionQueue, deadLettered >>
  /\ holding' = [ holding EXCEPT ![c] = NoSession ]
  /\ UNCHANGED << senders, sent, scheduled, current >>
  /\ UNCHANGED nonQueueVars

\* The handler of a consumer that lost its session ends: settling the message is
\* refused by the broker (the lock is gone) and changes nothing there.
StaleHandlerEnds(c) ==
  /\ holding[c] = NoSession
  /\ current[c] # NoMessage
  /\ current' = [ current EXCEPT ![c] = NoMessage ]
  /\ UNCHANGED << senders, sent, sessionQueue, scheduled, deadLettered, holding >>
  /\ UNCHANGED nonQueueVars

\* receiver.close(): the session lock is released.
CloseReceiver(c) ==
  /\ holding[c] # NoSession
  /\ current[c] = NoMessage
  /\ holding' = [ holding EXCEPT ![c] = NoSession ]
  /\ UNCHANGED << senders, sent, sessionQueue, scheduled, deadLettered, current >>
  /\ UNCHANGED nonQueueVars

\* The priority the routes pass (and the default of the add* methods).

\* The priority the routes pass (and the default of the add* methods).
Priorities == { 5 }

SessionIds == { k[2] : k \in SessionKeys }

\* ------------------------------------------------------------------------
\* Batch consumer (processBatchMessages) on the demographics-batch-processing queue
\* ------------------------------------------------------------------------
MaxBatch == 9

concurrencyLimit == 8

Pending == [ state |-> "pending", success |-> FALSE ]
Running == [ state |-> "running", success |-> FALSE ]

\* Mutant: no chunking, the whole rest of the batch is dispatched at once.
ChunkUnbounded(i) == { k \in 1..batchSize : i < k }

\* Mutant: the slices overlap by one message.
ChunkOverlapping(i) == { k \in 1..batchSize : i <= k /\ k <= i + concurrencyLimit }

\* batch = messages.slice(i, i + concurrencyLimit), as 1-based indices
Chunk(i) == { k \in 1..batchSize : i < k /\ k <= i + concurrencyLimit }

\* What a message of the batch can be: a string or an object, its type, whether
\* the payload names a webhook URL (or DEFAULT_WEBHOOK_URL is set), and the answer
\* of the webhook endpoint.
MessageBodies ==
  [ parses      : BOOLEAN,
    type        : { "webhook", "email", "sms", "unknown_type" },
    hasUrl      : BOOLEAN,
    responseOk  : BOOLEAN ]

\* processBatchWebhookMessage throws without a URL and on a non-2xx answer (or a
\* timeout of the POST).
processBatchWebhookMessageThrows(body) == ~ body.hasUrl \/ ~ body.responseOk

\* processBatchMessage: the switch on type; only the webhook handler can throw,
\* an unknown type is logged with a warning.
processBatchMessageThrows(body) ==
  body.type = "webhook" /\ processBatchWebhookMessageThrows(body)

\* The async callback of batch.map: JSON.parse and processBatchMessage inside
\* try/catch; it always fulfils, with success false when something threw.
HandlerResult(body) ==
  [ state   |-> "fulfilled",
    success |-> body.parses /\ ~ processBatchMessageThrows(body) ]

\* The cases of the switch of processBatchMessage.
DispatchTable == { "webhook", "email", "sms" }

\* The Service Bus trigger invokes processBatchMessages with n messages.
TriggerBatch(n) ==
  /\ pcBatch = "idle"
  /\ batchSize' = n
  /\ result' = [ k \in 1..n |-> Pending ]
  /\ acked' = [ k \in 1..n |-> 0 ]
  /\ pcBatch' = "loop"
  /\ UNCHANGED << chunkStart, logged >>
  /\ UNCHANGED nonBatchVars

\* batch.map(async ...): every handler of the chunk is started.
StartChunk ==
  /\ pcBatch = "loop"
  /\ chunkStart < batchSize
  /\ result' = [ k \in DOMAIN result |-> IF k \in Chunk(chunkStart) THEN Running ELSE result[k] ]
  /\ pcBatch' = "await"
  /\ UNCHANGED << batchSize, chunkStart, logged, acked >>
  /\ UNCHANGED nonBatchVars

\* Mutant: the POST of the first message has no timeout and never settles.
SettleHandlerWithoutTimeout(k) ==
  /\ pcBatch = "await"
  /\ k \in Chunk(chunkStart) \ { 1 }
  /\ result[k] = Running
  /\ \E body \in MessageBodies :
       result' = [ result EXCEPT ![k] = HandlerResult(body) ]
  /\ UNCHANGED << batchSize, chunkStart, pcBatch, logged, acked >>
  /\ UNCHANGED nonBatchVars

\* One handler of the chunk in flight settles: the handlers only log, or await one
\* fetch that is aborted after 10 s.
SettleHandler(k) ==
  /\ pcBatch = "await"
  /\ k \in Chunk(chunkStart)
  /\ result[k] = Running
  /\ \E body \in MessageBodies :
       result' = [ result EXCEPT ![k] = HandlerResult(body) ]
  /\ UNCHANGED << batchSize, chunkStart, pcBatch, logged, acked >>
  /\ UNCHANGED nonBatchVars

\* Mutant: Promise.all in place of Promise.allSettled with handlers that rethrow:
\* the first failure ends the invocation.
AwaitChunkFailFast ==
  /\ pcBatch = "await"
  /\ \/ /\ \E k \in Chunk(chunkStart) :
             result[k].state = "fulfilled" /\ ~ result[k].success
        /\ pcBatch' = "threw"
        /\ UNCHANGED << chunkStart, logged >>
     \/ /\ \A k \in Chunk(chunkStart) : result[k].state = "fulfilled" /\ result[k].success
        /\ logged' = Append(logged, << Cardinality(Chunk(chunkStart)), 0 >>)
        /\ chunkStart' = chunkStart + concurrencyLimit
        /\ pcBatch' = "loop"
  /\ UNCHANGED << batchSize, result, acked >>
  /\ UNCHANGED nonBatchVars

\* await Promise.allSettled(promises): resumes once every promise of the chunk
\* has settled; counts the fulfilled promises and logs {successful, failed}.
AwaitChunk ==
  /\ pcBatch = "await"
  /\ \A k \in Chunk(chunkStart) : result[k].state \in { "fulfilled", "rejected" }
  /\ LET successful == Cardinality({ k \in Chunk(chunkStart) : result[k].state = "fulfilled" })
         failed     == Cardinality(Chunk(chunkStart)) - successful
     IN  logged' = Append(logged, << successful, failed >>)
  /\ chunkStart' = chunkStart + concurrencyLimit
  /\ pcBatch' = "loop"
  /\ UNCHANGED << batchSize, result, acked >>
  /\ UNCHANGED nonBatchVars

\* The loop over the chunks is over: processBatchMessages returns.
ReturnFromBatch ==
  /\ pcBatch = "loop"
  /\ chunkStart >= batchSize
  /\ pcBatch' = "returned"
  /\ UNCHANGED << batchSize, chunkStart, result, logged, acked >>
  /\ UNCHANGED nonBatchVars

\* The Service Bus trigger (cardinality many) settles the messages of the
\* invocation: all completed when the function returned, all abandoned when it threw.
HostSettles ==
  /\ pcBatch \in { "returned", "threw" }
  /\ acked' = IF pcBatch = "returned" THEN [ k \in DOMAIN acked |-> acked[k] + 1 ] ELSE acked
  /\ pcBatch' = "settled"
  /\ UNCHANGED << batchSize, chunkStart, result, logged >>
  /\ UNCHANGED nonBatchVars

\* ------------------------------------------------------------------------
\* Credentials and the rate limiter (rateLimiter.checkRateLimit)
\* ------------------------------------------------------------------------
MaxTime == 4

WindowTypes == { "burst", "minute", "hour", "day" }

\* Length of each window in ticks of the clock: only their order is kept.
windowDuration == [ burst |-> 1, minute |-> 2, hour |-> 3, day |-> 4 ]

\* The credentials on record (ApiKey), by key id.
apiKeys ==
  [ kA |-> [ key_id      |-> "kA",
             law_firm    |-> << "A", "1" >>,
             rate_limits |-> [ requests_per_minute |-> 3,
                               requests_per_hour   |-> 4,
                               requests_per_day    |-> 5,
                               burst_limit         |-> 2 ] ],
    kB |-> [ key_id      |-> "kB",
             law_firm    |-> << "b", "-" >>,
             rate_limits |-> [ requests_per_minute |-> 2,
                               requests_per_hour   |-> 2,
                               requests_per_day    |-> 3,
                               burst_limit         |-> 1 ] ] ]

ApiKeyIds == DOMAIN apiKeys

\* The limit ApiKey.rate_limits configures for a window type.
WindowLimit(apiKey, w) ==
  CASE w = "burst"  -> apiKey.rate_limits.burst_limit
    [] w = "minute" -> apiKey.rate_limits.requests_per_minute
    [] w = "hour"   -> apiKey.rate_limits.requests_per_hour
    [] w = "day"    -> apiKey.rate_limits.requests_per_day

\* A counter is reset when now - windowStart >= windowDuration.
WindowExpired(counter, w, t) == t - counter.windowStart >= windowDuration[w]

EffectiveCount(counter, w, t) == IF WindowExpired(counter, w, t) THEN 0 ELSE counter.count

EffectiveStart(counter, w, t) == IF WindowExpired(counter, w, t) THEN t ELSE counter.windowStart

\* Mutant: the comparison is off by one.
WindowExhaustedOffByOne(count, limit) == count > limit

\* A window with `count` admissions has no slot left.
WindowExhausted(count, limit) == count >= limit

\* Mutant: only the minute window is evaluated.
ViolatedWindowsMinuteOnly(keyId, t) ==
  { w \in { "minute" } :
      WindowExhausted(EffectiveCount(counters[keyId][w], w, t), WindowLimit(apiKeys[keyId], w)) }

\* The windows of the credential that a request at time t would exceed.
ViolatedWindows(keyId, t) ==
  { w \in WindowTypes :
      WindowExhausted(EffectiveCount(counters[keyId][w], w, t), WindowLimit(apiKeys[keyId], w)) }

\* Rank of a window type, the longest window last.
WindowRank(w) == CASE w = "burst" -> 1 [] w = "minute" -> 2 [] w = "hour" -> 3 [] w = "day" -> 4

\* The most restrictive violated window: the one that stays closed longest.
MostRestrictive(ws) == CHOOSE w \in ws : \A v \in ws : WindowRank(v) <= WindowRank(w)

\* Every counter of the credential, counting one more request at time t.
Incremented(keyId, t) ==
  [ w \in WindowTypes |->
      [ windowStart |-> EffectiveStart(counters[keyId][w], w, t),
        count       |-> EffectiveCount(counters[keyId][w], w, t) + 1 ] ]

\* Mutant: the counters are incremented before the limits are compared.
CountersAfterCountingRejected(keyId, t) ==
  [ counters EXCEPT ![keyId] = Incremented(keyId, t) ]

\* Mutant: a read-modify-write across two calls to the store; of two requests
\* in the same tick the second overwrites the increment of the first.
CountersAfterLostUpdate(keyId, t) ==
  IF ViolatedWindows(keyId, t) # {} THEN counters
  ELSE IF admittedAt[keyId][t] > 0 THEN counters
  ELSE [ counters EXCEPT ![keyId] = Incremented(keyId, t) ]

\* The counters after checkRateLimit at time t: every window is incremented when
\* the request is allowed, none when it is rejected.
CountersAfter(keyId, t) ==
  IF ViolatedWindows(keyId, t) = {}
    THEN [ counters EXCEPT ![keyId] = Incremented(keyId, t) ]
    ELSE counters

\* The window with the smallest remaining fraction after the increment.
Tightest(keyId, t) ==
  LET after == Incremented(keyId, t)
      limit(w) == WindowLimit(apiKeys[keyId], w)
      rem(w) == limit(w) - after[w].count
      \* rem(w) / limit(w) <= rem(v) / limit(v), ties broken by the longer window
      tighter(w, v) ==
        \/ rem(w) * limit(v) < rem(v) * limit(w)
        \/ rem(w) * limit(v) = rem(v) * limit(w) /\ WindowRank(w) >= WindowRank(v)
  IN  CHOOSE w \in WindowTypes : \A v \in WindowTypes : tighter(w, v)

\* checkRateLimit(apiKey, clientIP) at time t: {allowed, limit, remaining, resetTime, windowType}
checkRateLimit(keyId, t) ==
  LET violated == ViolatedWindows(keyId, t)
      w == IF violated # {} THEN MostRestrictive(violated) ELSE Tightest(keyId, t)
      limit == WindowLimit(apiKeys[keyId], w)
      after == CountersAfter(keyId, t)[keyId][w]
  IN  [ allowed    |-> violated = {},
        limit      |-> limit,
        remaining  |-> IF violated # {} THEN 0 ELSE limit - after.count,
        resetTime  |-> after.windowStart + windowDuration[w],
        windowType |-> w ]

\* No call of checkRateLimit yet.
NoCall == [ keyId |-> None ]

\* The effect of one call of checkRateLimit on the limiter's state.
CallRateLimiter(keyId) ==
  /\ counters' = CountersAfter(keyId, now)
  /\ admittedAt' =
       IF checkRateLimit(keyId, now).allowed
         THEN [ admittedAt EXCEPT ![keyId][now] = @ + 1 ]
         ELSE admittedAt
  /\ lastCall' = [ keyId  |-> keyId,
                   time   |-> now,
                   before |-> counters[keyId],
                   result |-> checkRateLimit(keyId, now) ]

\* A caller checks the rate limit of a credential.
RateLimitCall(keyId) ==
  /\ CallRateLimiter(keyId)
  /\ UNCHANGED now
  /\ UNCHANGED nonRateVars

\* Time passes.
Tick ==
  /\ now < MaxTime
  /\ now' = now + 1
  /\ UNCHANGED << counters, admittedAt, lastCall >>
  /\ UNCHANGED nonRateVars

\* ------------------------------------------------------------------------
\* POST /api/v1/demographics: authMiddleware, idempotencyMiddleware(24),
\* validationMiddleware, the route handler, errorMiddleware
\* ------------------------------------------------------------------------
Requests == { "r1", "r2" }

\* The requests are named in the order of their arrival.
ArrivedBefore(r) == IF r = "r2" THEN { "r1" } ELSE {}

\* The x-api-key header: absent, or a key string (here: the id of the credential
\* it belongs to, or a string that belongs to none).
NoHeader == "missing"
ApiKeyHeaders == { NoHeader, "unknown" } \cup ApiKeyIds

\* The x-idempotency-key header: absent, or a UUID reduced to its version and
\* variant characters.
NoKey == << >>
IdempotencyKeys == { NoKey, << "4", "8" >>, << "1", "8" >> }

\* Mutant: any UUID is accepted, whatever its version.
IsUuid(key) == key # NoKey

\* /^[0-9a-f]{8}-[0-9a-f]{4}-4[0-9a-f]{3}-[89ab][0-9a-f]{3}-[0-9a-f]{12}$/i
IsUuidV4(key) == key # NoKey /\ key[1] = "4" /\ key[2] \in { "8", "9", "a", "b" }

\* A response: status, the code (or data.status) of its body, data.id of its body.
Response(status, code, id) == [ status |-> status, code |-> code, id |-> id ]

NoResponse == Response(0, None, None)

\* A request that has not arrived.
NewRequest ==
  [ pc              |-> "start",
    apiKeyHeader    |-> NoHeader,
    idempotencyKey  |-> NoKey,
    bodyValid       |-> FALSE,
    apiKey          |-> None,      \* the credential validateApiKey returned
    auth            |-> None,      \* req.auth.keyId
    rateLimit       |-> "notCalled", \* how rateLimiter.checkRateLimit ended for this request
    rateLimitHeaders |-> FALSE,    \* the X-RateLimit-* headers are set on res
    capture         |-> FALSE,     \* res.json is overridden by idempotencyMiddleware
    handler         |-> FALSE,     \* the route handler was entered
    created         |-> FALSE,     \* createDemographic persisted the record
    lookup          |-> FALSE,     \* idempotencyService.checkIdempotency was called
    lookupThrew     |-> FALSE,     \* and threw (the store was unavailable)
    sawRecord       |-> NoResponse, \* the unexpired response on record when the lookup was made
    sawExpired      |-> FALSE,     \* an expired record was on record when the lookup was made
    sawOther        |-> FALSE,     \* another tenant had an unexpired record under the same key then
    sawMismatch     |-> NoResponse, \* the unexpired response on record for another body then
    response        |-> NoResponse ]

\* The rows of the idempotency store: (tenantId, key).
IdempotencySlots == { << lf, key >> : lf \in LawFirms, key \in { k \in IdempotencyKeys : IsUuidV4(k) } }

NoRecord == [ response |-> NoResponse, expiresAt |-> 0, body |-> FALSE ]

\* idempotencyMiddleware(24): the records live 24 hours, the length of the day window.
ttlHours == windowDuration.day

\* A record is stored for (lawFirm, key) and its ttlHours have passed.
Expired(lawFirm, key) ==
  LET record == idempotencyRecords[<< lawFirm, key >>]
  IN  record.response # NoResponse /\ now >= record.expiresAt

\* Mutant: the lookup ignores the expiry of the record.
checkIdempotencyIgnoringExpiry(lawFirm, key, body) ==
  LET record == idempotencyRecords[<< lawFirm, key >>]
  IN  IF record.body = body THEN record.response ELSE NoResponse

\* checkIdempotency(lawFirm, key, method, path, body): the stored response of an
\* unexpired record of the same request. Every request here is POST
\* /api/v1/demographics, so the fingerprint (method, path, body) is the body: the
\* valid one or the invalid one.
checkIdempotency(lawFirm, key, body) ==
  LET record == idempotencyRecords[<< lawFirm, key >>]
  IN  IF record.response # NoResponse /\ now < record.expiresAt /\ record.body = body
        THEN record.response
        ELSE NoResponse

\* The unexpired response on record under (lawFirm, key) for another body.
Mismatch(lawFirm, key, body) == checkIdempotency(lawFirm, key, ~ body)

\* res.status(..).json(..) on request r, whose record becomes rq: the response is
\* sent; with res.json overridden, a setImmediate callback is scheduled that will
\* store the response.
Send(r, rq, response) ==
  /\ req' = [ req EXCEPT ![r] = [ rq EXCEPT !.pc = "done", !.response = response ] ]
  /\ storePending' =
       IF rq.capture
         THEN storePending \cup
                { [ request  |-> r,
                    lawFirm  |-> apiKeys[rq.auth].law_firm,
                    key      |-> rq.idempotencyKey,
                    body     |-> rq.bodyValid,
                    response |-> response ] }
         ELSE storePending

\* errorMiddleware: the response to an error passed to next(error).
errorMiddleware(error) ==
  IF error = "ECONNREFUSED"
    THEN Response(503, "SERVICE_UNAVAILABLE", None)
    ELSE Response(500, "INTERNAL_ERROR", None)

\* validationMiddleware(CreateDemographicsRequestSchema), then the entry of the
\* route handler: an invalid body is answered 400, a valid one reaches the handler.
\* bodyValid is whether schema.safeParse(req.body) succeeds; the body is read here.
validationMiddleware(r, rq, bodyValid) ==
  IF ~ bodyValid
    THEN Send(r, rq, Response(400, "VALIDATION_ERROR", None))
    ELSE /\ req' = [ req EXCEPT ![r] = [ rq EXCEPT !.pc = "createDemographic",
                                                   !.bodyValid = TRUE,
                                                   !.handler = TRUE ] ]
         /\ UNCHANGED storePending

\* idempotencyMiddleware up to its await: POST is a mutating method; the key is
\* optional; a key that is not a version-4 UUID is answered 400. idempotencyKey is
\* req.headers['x-idempotency-key'], read here.
idempotencyMiddleware(r, rq, idempotencyKey, bodyValid) ==
  IF idempotencyKey = NoKey
    THEN validationMiddleware(r, rq, bodyValid)
    ELSE IF ~ IsUuidV4(idempotencyKey)
      THEN Send(r, [ rq EXCEPT !.idempotencyKey = idempotencyKey ],
                Response(400, "INVALID_IDEMPOTENCY_KEY", None))
      ELSE /\ req' = [ req EXCEPT ![r] = [ rq EXCEPT !.pc = "checkIdempotency",
                                                     !.idempotencyKey = idempotencyKey ] ]
           /\ UNCHANGED storePending

\* A request arrives; authMiddleware up to its first await: a request without
\* x-api-key is answered 401.
ReceiveRequest(r, apiKeyHeader) ==
  /\ req[r].pc = "start"
  /\ \A q \in ArrivedBefore(r) : req[q].pc # "start"
  /\ LET rq == [ req[r] EXCEPT !.apiKeyHeader = apiKeyHeader ]
     IN  IF apiKeyHeader = NoHeader
           THEN Send(r, rq, Response(401, "MISSING_API_KEY", None))
           ELSE /\ req' = [ req EXCEPT ![r] = [ rq EXCEPT !.pc = "validateApiKey" ] ]
                /\ UNCHANGED storePending
  /\ UNCHANGED << usageCount, idempotencyRecords, demographics >>
  /\ UNCHANGED << queueVars, batchVars, sessionIdVars, dispatchVars, enqueueVars, shutdownVars, retryVars, sendBatchVars, routeVars, tenantVars, orderVars, connectionVars, rateVars, functionVars >>

\* await apiKeyService.validateApiKey(..) returns or throws: a key of no credential
\* is answered 401, an exception 500; a successful validation counts one use.
ValidateApiKey(r, throws) ==
  /\ req[r].pc = "validateApiKey"
  /\ IF throws
       THEN /\ Send(r, req[r], Response(500, "AUTH_SYSTEM_ERROR", None))
            /\ UNCHANGED usageCount
       ELSE IF req[r].apiKeyHeader \notin ApiKeyIds
         THEN /\ Send(r, req[r], Response(401, "INVALID_API_KEY", None))
              /\ UNCHANGED usageCount
         ELSE /\ req' = [ req EXCEPT ![r].pc = "checkRateLimit",
                                     ![r].apiKey = req[r].apiKeyHeader ]
              /\ usageCount' = [ usageCount EXCEPT ![req[r].apiKeyHeader] = @ + 1 ]
              /\ UNCHANGED storePending
  /\ UNCHANGED << idempotencyRecords, demographics >>
  /\ UNCHANGED << queueVars, batchVars, sessionIdVars, dispatchVars, enqueueVars, shutdownVars, retryVars, sendBatchVars, routeVars, tenantVars, orderVars, connectionVars, rateVars, functionVars >>

\* Mutant: the 429 branch does not return; a rejected request goes on like an
\* allowed one.
CheckRateLimitFallsThrough(r, throws, idempotencyKey, bodyValid) ==
  /\ req[r].pc = "checkRateLimit"
  /\ IF throws
       THEN /\ Send(r, [ req[r] EXCEPT !.rateLimit = "threw" ],
                    Response(500, "AUTH_SYSTEM_ERROR", None))
            /\ UNCHANGED << counters, admittedAt, lastCall >>
       ELSE /\ counters' = CountersAfter(req[r].apiKey, now)
            /\ UNCHANGED << admittedAt, lastCall >>
            /\ idempotencyMiddleware(r,
                 [ req[r] EXCEPT !.rateLimit = IF checkRateLimit(req[r].apiKey, now).allowed
                                                 THEN "allowed" ELSE "rejected",
                                 !.rateLimitHeaders = TRUE,
                                 !.auth = req[r].apiKey ],
                 idempotencyKey, bodyValid)
  /\ UNCHANGED << now, usageCount, idempotencyRecords, demographics >>
  /\ UNCHANGED << queueVars, batchVars, sessionIdVars, dispatchVars, enqueueVars, shutdownVars, retryVars, sendBatchVars, routeVars, tenantVars, orderVars, connectionVars, functionVars >>

\* await rateLimiter.checkRateLimit(apiKey, clientIP) returns or throws: a rejected
\* request is answered 429 with the rate-limit headers; an allowed one gets the
\* headers and req.auth, and goes on to idempotencyMiddleware; an exception is
\* answered 500.
CheckRateLimit(r, throws, idempotencyKey, bodyValid) ==
  /\ req[r].pc = "checkRateLimit"
  /\ IF throws
       THEN /\ Send(r, [ req[r] EXCEPT !.rateLimit = "threw" ],
                    Response(500, "AUTH_SYSTEM_ERROR", None))
            /\ UNCHANGED << counters, admittedAt, lastCall >>
       ELSE /\ counters' = CountersAfter(req[r].apiKey, now)
            /\ UNCHANGED << admittedAt, lastCall >>
            /\ IF ~ checkRateLimit(req[r].apiKey, now).allowed
                 THEN Send(r, [ req[r] EXCEPT !.rateLimit = "rejected",
                                              !.rateLimitHeaders = TRUE ],
                           Response(429, "RATE_LIMIT_EXCEEDED", None))
                 ELSE idempotencyMiddleware(r,
                        [ req[r] EXCEPT !.rateLimit = "allowed",
                                        !.rateLimitHeaders = TRUE,
                                        !.auth = req[r].apiKey ],
                        idempotencyKey, bodyValid)
  /\ UNCHANGED << now, usageCount, idempotencyRecords, demographics >>
  /\ UNCHANGED << queueVars, batchVars, sessionIdVars, dispatchVars, enqueueVars, shutdownVars, retryVars, sendBatchVars, routeVars, tenantVars, orderVars, connectionVars, functionVars >>

\* Mutant: the lookup is made by the key alone, under whichever tenant has a record.
CheckIdempotencyAnyTenant(r, throws, bodyValid) ==
  /\ req[r].pc = "checkIdempotency"
  /\ LET found == { lf \in LawFirms :
                      checkIdempotency(lf, req[r].idempotencyKey, bodyValid) # NoResponse }
         cachedResponse == IF found = {} THEN NoResponse
                           ELSE checkIdempotency(CHOOSE lf \in found : TRUE,
                                                 req[r].idempotencyKey, bodyValid)
         rq == [ req[r] EXCEPT
                   !.bodyValid = bodyValid,
                   !.lookup = TRUE,
                   !.lookupThrew = throws,
                   !.sawRecord = cachedResponse,
                   !.sawOther = \E lf \in LawFirms \ { apiKeys[req[r].auth].law_firm } :
                                   checkIdempotency(lf, req[r].idempotencyKey, bodyValid) # NoResponse ]
     IN  IF throws
           THEN validationMiddleware(r, rq, bodyValid)
           ELSE IF cachedResponse # NoResponse
             THEN Send(r, rq, cachedResponse)
             ELSE validationMiddleware(r, [ rq EXCEPT !.capture = TRUE ], bodyValid)
  /\ UNCHANGED << usageCount, idempotencyRecords, demographics >>
  /\ UNCHANGED << queueVars, batchVars, sessionIdVars, dispatchVars, enqueueVars, shutdownVars, retryVars, sendBatchVars, routeVars, tenantVars, orderVars, connectionVars, rateVars, functionVars >>

\* Mutant: the request is not passed to the lookup, which is made by (tenant, key)
\* alone.
CheckIdempotencyAnyBody(r, throws, bodyValid) ==
  /\ req[r].pc = "checkIdempotency"
  /\ LET cachedResponse ==
           checkIdempotency(apiKeys[req[r].auth].law_firm, req[r].idempotencyKey,
                            idempotencyRecords[<< apiKeys[req[r].auth].law_firm,
                                                  req[r].idempotencyKey >>].body)
         rq == [ req[r] EXCEPT
                   !.bodyValid = bodyValid,
                   !.lookup = TRUE,
                   !.lookupThrew = throws,
                   !.sawRecord = cachedResponse,
                   !.sawMismatch = Mismatch(apiKeys[req[r].auth].law_firm, req[r].idempotencyKey,
                                            bodyValid),
                   !.sawExpired = Expired(apiKeys[req[r].auth].law_firm, req[r].idempotencyKey),
                   !.sawOther = \E lf \in LawFirms \ { apiKeys[req[r].auth].law_firm } :
                                   checkIdempotency(lf, req[r].idempotencyKey, bodyValid) # NoResponse ]
     IN  IF throws
           THEN validationMiddleware(r, rq, bodyValid)
           ELSE IF cachedResponse # NoResponse
             THEN Send(r, rq, cachedResponse)
             ELSE validationMiddleware(r, [ rq EXCEPT !.capture = TRUE ], bodyValid)
  /\ UNCHANGED << usageCount, idempotencyRecords, demographics >>
  /\ UNCHANGED << queueVars, batchVars, sessionIdVars, dispatchVars, enqueueVars, shutdownVars, retryVars, sendBatchVars, routeVars, tenantVars, orderVars, connectionVars, rateVars, functionVars >>

\* await idempotencyService.checkIdempotency(..) returns or throws: a hit answers
\* with the cached response; a miss overrides res.json and calls next(); an
\* exception is logged and next() is called all the same.
CheckIdempotency(r, throws, bodyValid) ==
  /\ req[r].pc = "checkIdempotency"
  /\ LET cachedResponse == checkIdempotency(apiKeys[req[r].auth].law_firm, req[r].idempotencyKey,
                                            bodyValid)
         rq == [ req[r] EXCEPT
                   !.bodyValid = bodyValid,
                   !.lookup = TRUE,
                   !.lookupThrew = throws,
                   !.sawRecord = cachedResponse,
                   !.sawMismatch = Mismatch(apiKeys[req[r].auth].law_firm, req[r].idempotencyKey,
                                            bodyValid),
                   !.sawExpired = Expired(apiKeys[req[r].auth].law_firm, req[r].idempotencyKey),
                   !.sawOther = \E lf \in LawFirms \ { apiKeys[req[r].auth].law_firm } :
                                   checkIdempotency(lf, req[r].idempotencyKey, bodyValid) # NoResponse ]
     IN  IF throws
           THEN validationMiddleware(r, rq, bodyValid)
           ELSE IF cachedResponse # NoResponse
             THEN Send(r, rq, cachedResponse)
             ELSE validationMiddleware(r, [ rq EXCEPT !.capture = TRUE ], bodyValid)
  /\ UNCHANGED << usageCount, idempotencyRecords, demographics >>
  /\ UNCHANGED << queueVars, batchVars, sessionIdVars, dispatchVars, enqueueVars, shutdownVars, retryVars, sendBatchVars, routeVars, tenantVars, orderVars, connectionVars, rateVars, functionVars >>

\* What an awaited call of the handler can do: return, or throw an error.
Outcomes == { "ok", "ECONNREFUSED", "Error" }

\* sendMessage returns, or rethrows the error of the broker.
SendOutcomes == { "ok", "Error" }

\* await databaseService.createDemographic(demographics): the record, with a fresh
\* id and partitionKey = req.auth.lawFirm, is persisted; an error goes to next(error).
CreateDemographic(r, outcome) ==
  /\ req[r].pc = "createDemographic"
  /\ IF outcome = "ok"
       THEN /\ demographics' = demographics \cup
                 { [ id |-> r, partitionKey |-> apiKeys[req[r].auth].law_firm ] }
            /\ req' = [ req EXCEPT ![r].pc = "addDemographicsMessage", ![r].created = TRUE ]
            /\ UNCHANGED storePending
       ELSE /\ Send(r, req[r], errorMiddleware(outcome))
            /\ UNCHANGED demographics
  /\ UNCHANGED << usageCount, idempotencyRecords >>
  /\ UNCHANGED << queueVars, batchVars, sessionIdVars, dispatchVars, enqueueVars, shutdownVars, retryVars, sendBatchVars, routeVars, tenantVars, orderVars, connectionVars, rateVars, functionVars >>

\* await fifoQueueService.addDemographicsMessage(lawFirm, {id, action, data}, 5)
HandlerAddDemographicsMessage(r, outcome) ==
  /\ req[r].pc = "addDemographicsMessage"
  /\ IF outcome = "ok"
       THEN /\ addDemographicsMessage(apiKeys[req[r].auth].law_firm, 5)
            /\ req' = [ req EXCEPT ![r].pc = "addWebhookMessage" ]
            /\ UNCHANGED storePending
       ELSE /\ Send(r, req[r], errorMiddleware(outcome))
            /\ UNCHANGED << senders, sent, sessionQueue, scheduled >>
  /\ UNCHANGED << deadLettered, holding, current >>
  /\ UNCHANGED << usageCount, idempotencyRecords, demographics >>
  /\ UNCHANGED << batchVars, sessionIdVars, dispatchVars, enqueueVars, shutdownVars, retryVars, sendBatchVars, routeVars, tenantVars, orderVars, connectionVars, rateVars, functionVars >>

\* await fifoQueueService.addWebhookMessage(lawFirm, {event, data, metadata}), then
\* res.status(201).json({success, data: {id, status: 'accepted'}, ...})
HandlerAddWebhookMessage(r, outcome) ==
  /\ req[r].pc = "addWebhookMessage"
  /\ IF outcome = "ok"
       THEN /\ addWebhookMessage(apiKeys[req[r].auth].law_firm, 5)
            /\ Send(r, req[r], Response(201, "accepted", r))
       ELSE /\ Send(r, req[r], errorMiddleware(outcome))
            /\ UNCHANGED << senders, sent, sessionQueue, scheduled >>
  /\ UNCHANGED << deadLettered, holding, current >>
  /\ UNCHANGED << usageCount, idempotencyRecords, demographics >>
  /\ UNCHANGED << batchVars, sessionIdVars, dispatchVars, enqueueVars, shutdownVars, retryVars, sendBatchVars, routeVars, tenantVars, orderVars, connectionVars, rateVars, functionVars >>

\* Mutant: a failure of the store is not caught; it reaches the error handling of
\* the request and replaces the response.
StoreIdempotencyRecordRaising(r, throws) ==
  /\ \E p \in storePending :
       /\ p.request = r
       /\ storePending' = storePending \ { p }
       /\ IF throws
            THEN /\ req' = [ req EXCEPT ![r].response = errorMiddleware("Error") ]
                 /\ UNCHANGED idempotencyRecords
            ELSE /\ idempotencyRecords' =
                      [ idempotencyRecords EXCEPT
                          ![<< p.lawFirm, p.key >>] =
                            [ response |-> p.response, expiresAt |-> now + ttlHours, body |-> p.body ] ]
                 /\ UNCHANGED req
  /\ UNCHANGED << usageCount, demographics >>
  /\ UNCHANGED << queueVars, batchVars, sessionIdVars, dispatchVars, enqueueVars, shutdownVars, retryVars, sendBatchVars, routeVars, tenantVars, orderVars, connectionVars, rateVars, functionVars >>

\* The setImmediate callback: await idempotencyService.storeIdempotencyRecord(..)
\* writes the row (tenantId, key) with the response and its expiry; a failure is
\* logged and ignored.
StoreIdempotencyRecord(r, throws) ==
  /\ \E p \in storePending :
       /\ p.request = r
       /\ storePending' = storePending \ { p }
       /\ idempotencyRecords' =
            IF throws THEN idempotencyRecords
            ELSE [ idempotencyRecords EXCEPT
                     ![<< p.lawFirm, p.key >>] =
                       [ response |-> p.response, expiresAt |-> now + ttlHours, body |-> p.body ] ]
  /\ UNCHANGED << req, usageCount, demographics >>
  /\ UNCHANGED << queueVars, batchVars, sessionIdVars, dispatchVars, enqueueVars, shutdownVars, retryVars, sendBatchVars, routeVars, tenantVars, orderVars, connectionVars, rateVars, functionVars >>

\* ------------------------------------------------------------------------
\* The HTTP functions submitDemographics (POST /demographics, behind the
\* authMiddleware of the functions) and retrieveDemographics (GET /demographics,
\* with its own authentication), and an endpoint that calls authMiddleware with
\* allowAnonymous; one invocation of each
\* ------------------------------------------------------------------------
Functions == { "submitDemographics", "retrieveDemographics", "anonymous" }

\* The names of the headers of the rate limit.
RateLimitHeaders ==
  { "X-RateLimit-Limit", "X-RateLimit-Remaining", "X-RateLimit-Reset", "X-RateLimit-Window" }

\* new HttpResponse({status, headers, jsonBody}): status, jsonBody.code, the names
\* of the headers.
HttpResponse(status, code, headers) == [ status |-> status, code |-> code, headers |-> headers ]

NoHttpResponse == HttpResponse(0, None, {})

\* A function that has not been invoked.
NewInvocation ==
  [ pc           |-> "idle",
    apiKeyHeader |-> NoHeader,
    apiKey       |-> None,          \* the credential validateApiKey returned
    rateLimit    |-> "notCalled",   \* how rateLimiter.checkRateLimit ended for this invocation
    extraOutputs |-> {},            \* context.extraOutputs 'rateLimitHeaders': the header names stored
    handler      |-> FALSE,         \* the gate let the request through to the business logic
    created      |-> FALSE,         \* createDemographic persisted the record
    enqueued     |-> FALSE,         \* queueService.addWebhookMessage sent the notification
    response     |-> NoHttpResponse ]

\* addRateLimitHeaders(response, context): the headers stored in the context, if
\* any, are added to the response.
addRateLimitHeaders(response, extraOutputs) ==
  IF extraOutputs # {}
    THEN [ response EXCEPT !.headers = @ \cup extraOutputs ]
    ELSE response

\* The function returns the response; inv is the record of its invocation.
Return(f, inv, response) ==
  invocation' = [ invocation EXCEPT ![f] = [ inv EXCEPT !.pc = "done", !.response = response ] ]

\* submitDemographics is invoked; authMiddleware up to its first await: a request
\* without x-api-key is answered 401.
SubmitDemographics(apiKeyHeader) ==
  /\ invocation.submitDemographics.pc = "idle"
  /\ LET inv == [ invocation.submitDemographics EXCEPT !.apiKeyHeader = apiKeyHeader ]
     IN  IF apiKeyHeader = NoHeader
           THEN Return("submitDemographics", inv, HttpResponse(401, "MISSING_API_KEY", {}))
           ELSE invocation' = [ invocation EXCEPT !.submitDemographics =
                                  [ inv EXCEPT !.pc = "validateApiKey" ] ]
  /\ UNCHANGED << queueVars, batchVars, sessionIdVars, dispatchVars, enqueueVars, shutdownVars, retryVars, sendBatchVars, routeVars, tenantVars, orderVars, connectionVars, rateVars, gateVars >>

\* authMiddleware: await apiKeyService.validateApiKey(..) returns or throws.
SubmitValidateApiKey(throws) ==
  LET inv == invocation.submitDemographics
  IN  /\ inv.pc = "validateApiKey"
      /\ IF throws
           THEN /\ Return("submitDemographics", inv, HttpResponse(500, "AUTH_SYSTEM_ERROR", {}))
                /\ UNCHANGED usageCount
           ELSE IF inv.apiKeyHeader \notin ApiKeyIds
             THEN /\ Return("submitDemographics", inv, HttpResponse(401, "INVALID_API_KEY", {}))
                  /\ UNCHANGED usageCount
             ELSE /\ invocation' = [ invocation EXCEPT !.submitDemographics =
                                       [ inv EXCEPT !.pc = "checkRateLimit",
                                                    !.apiKey = inv.apiKeyHeader ] ]
                  /\ usageCount' = [ usageCount EXCEPT ![inv.apiKeyHeader] = @ + 1 ]
      /\ UNCHANGED << req, idempotencyRecords, storePending, demographics >>
      /\ UNCHANGED << queueVars, batchVars, sessionIdVars, dispatchVars, enqueueVars, shutdownVars, retryVars, sendBatchVars, routeVars, tenantVars, orderVars, connectionVars, rateVars >>

\* authMiddleware: await rateLimiter.checkRateLimit(apiKey, clientIP) returns or
\* throws: a rejected request is answered 429 with the four headers and Retry-After;
\* for an allowed one the four headers are stored in context.extraOutputs and the
\* function goes on to read the body.
SubmitCheckRateLimit(throws) ==
  LET inv == invocation.submitDemographics
  IN  /\ inv.pc = "checkRateLimit"
      /\ IF throws
           THEN /\ Return("submitDemographics", [ inv EXCEPT !.rateLimit = "threw" ],
                          HttpResponse(500, "AUTH_SYSTEM_ERROR", {}))
                /\ UNCHANGED counters
           ELSE /\ counters' = CountersAfter(inv.apiKey, now)
                /\ IF ~ checkRateLimit(inv.apiKey, now).allowed
                     THEN Return("submitDemographics", [ inv EXCEPT !.rateLimit = "rejected" ],
                                 HttpResponse(429, "RATE_LIMIT_EXCEEDED",
                                              RateLimitHeaders \cup { "Retry-After" }))
                     ELSE invocation' = [ invocation EXCEPT !.submitDemographics =
                                            [ inv EXCEPT !.pc = "json",
                                                         !.rateLimit = "allowed",
                                                         !.handler = TRUE,
                                                         !.extraOutputs = RateLimitHeaders ] ]
      /\ UNCHANGED << now, admittedAt, lastCall >>
      /\ UNCHANGED << queueVars, batchVars, sessionIdVars, dispatchVars, enqueueVars, shutdownVars, retryVars, sendBatchVars, routeVars, tenantVars, orderVars, connectionVars, gateVars >>

\* What reading and validating the body can give.
BodyOutcomes == { "valid", "invalid", "Error" }

\* await originalRequest.json() and safeParse: a body that is not JSON throws, and
\* the catch answers 500; an invalid body is answered 400 through
\* addRateLimitHeaders.
SubmitParseBody(outcome) ==
  LET inv == invocation.submitDemographics
  IN  /\ inv.pc = "json"
      /\ CASE outcome = "Error" ->
                Return("submitDemographics", inv, HttpResponse(500, None, {}))
           [] outcome = "invalid" ->
                Return("submitDemographics", inv,
                       addRateLimitHeaders(HttpResponse(400, None, {}), inv.extraOutputs))
           [] outcome = "valid" ->
                invocation' = [ invocation EXCEPT !.submitDemographics.pc = "createDemographic" ]
      /\ UNCHANGED << queueVars, batchVars, sessionIdVars, dispatchVars, enqueueVars, shutdownVars, retryVars, sendBatchVars, routeVars, tenantVars, orderVars, connectionVars, rateVars, gateVars >>

\* await databaseService.createDemographic(demographics): an error is caught and
\* answered 500.
SubmitCreateDemographic(outcome) ==
  LET inv == invocation.submitDemographics
  IN  /\ inv.pc = "createDemographic"
      /\ IF outcome = "ok"
           THEN invocation' = [ invocation EXCEPT !.submitDemographics =
                                  [ inv EXCEPT !.pc = "addWebhookMessage", !.created = TRUE ] ]
           ELSE Return("submitDemographics", inv, HttpResponse(500, None, {}))
      /\ UNCHANGED << queueVars, batchVars, sessionIdVars, dispatchVars, enqueueVars, shutdownVars, retryVars, sendBatchVars, routeVars, tenantVars, orderVars, connectionVars, rateVars, gateVars >>

\* await queueService.addWebhookMessage(..), then the 201 through
\* addRateLimitHeaders; an error is caught and answered 500.
SubmitAddWebhookMessage(outcome) ==
  LET inv == invocation.submitDemographics
  IN  /\ inv.pc = "addWebhookMessage"
      /\ IF outcome = "ok"
           THEN Return("submitDemographics", [ inv EXCEPT !.enqueued = TRUE ],
                       addRateLimitHeaders(HttpResponse(201, None, {}), inv.extraOutputs))
           ELSE Return("submitDemographics", inv, HttpResponse(500, None, {}))
      /\ UNCHANGED << queueVars, batchVars, sessionIdVars, dispatchVars, enqueueVars, shutdownVars, retryVars, sendBatchVars, routeVars, tenantVars, orderVars, connectionVars, rateVars, gateVars >>

\* retrieveDemographics is invoked: a request without x-api-key is answered 401.
RetrieveDemographics(apiKeyHeader) ==
  /\ invocation.retrieveDemographics.pc = "idle"
  /\ LET inv == [ invocation.retrieveDemographics EXCEPT !.apiKeyHeader = apiKeyHeader ]
     IN  IF apiKeyHeader = NoHeader
           THEN Return("retrieveDemographics", inv, HttpResponse(401, None, {}))
           ELSE invocation' = [ invocation EXCEPT !.retrieveDemographics =
                                  [ inv EXCEPT !.pc = "validateApiKey" ] ]
  /\ UNCHANGED << queueVars, batchVars, sessionIdVars, dispatchVars, enqueueVars, shutdownVars, retryVars, sendBatchVars, routeVars, tenantVars, orderVars, connectionVars, rateVars, gateVars >>

\* await apiKeyService.validateApiKey(..) returns or throws; the catch of the
\* function answers 500.
RetrieveValidateApiKey(throws) ==
  LET inv == invocation.retrieveDemographics
  IN  /\ inv.pc = "validateApiKey"
      /\ IF throws
           THEN /\ Return("retrieveDemographics", inv, HttpResponse(500, None, {}))
                /\ UNCHANGED usageCount
           ELSE IF inv.apiKeyHeader \notin ApiKeyIds
             THEN /\ Return("retrieveDemographics", inv, HttpResponse(401, None, {}))
                  /\ UNCHANGED usageCount
             ELSE /\ invocation' = [ invocation EXCEPT !.retrieveDemographics =
                                       [ inv EXCEPT !.pc = "checkRateLimit",
                                                    !.apiKey = inv.apiKeyHeader ] ]
                  /\ usageCount' = [ usageCount EXCEPT ![inv.apiKeyHeader] = @ + 1 ]
      /\ UNCHANGED << req, idempotencyRecords, storePending, demographics >>
      /\ UNCHANGED << queueVars, batchVars, sessionIdVars, dispatchVars, enqueueVars, shutdownVars, retryVars, sendBatchVars, routeVars, tenantVars, orderVars, connectionVars, rateVars >>

\* await rateLimiter.checkRateLimit(apiKey, clientIP) returns or throws: a rejected
\* request is answered 429 with the four headers.
RetrieveCheckRateLimit(throws) ==
  LET inv == invocation.retrieveDemographics
  IN  /\ inv.pc = "checkRateLimit"
      /\ IF throws
           THEN /\ Return("retrieveDemographics", [ inv EXCEPT !.rateLimit = "threw" ],
                          HttpResponse(500, None, {}))
                /\ UNCHANGED counters
           ELSE /\ counters' = CountersAfter(inv.apiKey, now)
                /\ IF ~ checkRateLimit(inv.apiKey, now).allowed
                     THEN Return("retrieveDemographics", [ inv EXCEPT !.rateLimit = "rejected" ],
                                 HttpResponse(429, None, RateLimitHeaders))
                     ELSE invocation' = [ invocation EXCEPT !.retrieveDemographics =
                                            [ inv EXCEPT !.pc = "getDemographicsByLawFirm",
                                                         !.rateLimit = "allowed",
                                                         !.handler = TRUE ] ]
      /\ UNCHANGED << now, admittedAt, lastCall >>
      /\ UNCHANGED << queueVars, batchVars, sessionIdVars, dispatchVars, enqueueVars, shutdownVars, retryVars, sendBatchVars, routeVars, tenantVars, orderVars, connectionVars, gateVars >>

\* await databaseService.getDemographicsByLawFirm(..), then the 200 with the
\* headers Limit, Remaining and Reset; an error is caught and answered 500.
RetrieveGetDemographics(outcome) ==
  LET inv == invocation.retrieveDemographics
  IN  /\ inv.pc = "getDemographicsByLawFirm"
      /\ IF outcome = "ok"
           THEN Return("retrieveDemographics", inv,
                       HttpResponse(200, None, RateLimitHeaders \ { "X-RateLimit-Window" }))
           ELSE Return("retrieveDemographics", inv, HttpResponse(500, None, {}))
      /\ UNCHANGED << queueVars, batchVars, sessionIdVars, dispatchVars, enqueueVars, shutdownVars, retryVars, sendBatchVars, routeVars, tenantVars, orderVars, connectionVars, rateVars, gateVars >>

\* Mutant: the option allowAnonymous is ignored: a request without x-api-key is
\* answered 401.
InvokeAnonymousAuthenticated(apiKeyHeader) ==
  /\ invocation.anonymous.pc = "idle"
  /\ LET inv == [ invocation.anonymous EXCEPT !.apiKeyHeader = apiKeyHeader ]
     IN  IF apiKeyHeader = NoHeader
           THEN Return("anonymous", inv, HttpResponse(401, "MISSING_API_KEY", {}))
           ELSE invocation' = [ invocation EXCEPT !.anonymous =
                                  [ inv EXCEPT !.pc = "handler", !.handler = TRUE ] ]
  /\ UNCHANGED << queueVars, batchVars, sessionIdVars, dispatchVars, enqueueVars, shutdownVars, retryVars, sendBatchVars, routeVars, tenantVars, orderVars, connectionVars, rateVars, gateVars >>

\* An endpoint calls authMiddleware(request, context, {allowAnonymous: true}): it
\* returns {success: true, data: {request, auth: null, requestId}} before the
\* x-api-key header is read, and the endpoint goes on to its business logic.
InvokeAnonymous(apiKeyHeader) ==
  /\ invocation.anonymous.pc = "idle"
  /\ invocation' = [ invocation EXCEPT !.anonymous =
                       [ @ EXCEPT !.pc = "handler",
                                  !.apiKeyHeader = apiKeyHeader,
                                  !.handler = TRUE ] ]
  /\ UNCHANGED << queueVars, batchVars, sessionIdVars, dispatchVars, enqueueVars, shutdownVars, retryVars, sendBatchVars, routeVars, tenantVars, orderVars, connectionVars, rateVars, gateVars >>

\* The business logic of the anonymous endpoint returns its response.
AnonymousHandler(outcome) ==
  /\ invocation.anonymous.pc = "handler"
  /\ Return("anonymous", invocation.anonymous,
            HttpResponse(IF outcome = "ok" THEN 200 ELSE 500, None, {}))
  /\ UNCHANGED << queueVars, batchVars, sessionIdVars, dispatchVars, enqueueVars, shutdownVars, retryVars, sendBatchVars, routeVars, tenantVars, orderVars, connectionVars, rateVars, gateVars >>

\* ------------------------------------------------------------------------
\* sendMessage seen from its payload: message.payload is typed any and is
\* spread into the body of the Service Bus message as it is.
\* ------------------------------------------------------------------------

MaxSends == 3

QueueTypes == { "demographics", "webhooks", "documents" }

\* {id: ...}, {} and undefined.
Payloads == { "data", "emptyObject", "undefined" }

\* sendMessage(queueType, {payload, ...}): builds the Service Bus message and
\* awaits sender.sendMessages; a failure of the broker is logged and thrown
\* again. Nothing in between reads message.payload.
SendPayload(queueType, payload, brokerOk) ==
  /\ Len(outbox.messages) < MaxSends
  /\ outbox' =
       IF brokerOk
         THEN [ messages |-> Append(outbox.messages,
                                    [ queue |-> queueNames[queueType], payload |-> payload ]),
                payload  |-> payload,
                settled  |-> "resolved" ]
         ELSE [ outbox EXCEPT !.payload = payload, !.settled = "rejected" ]
  /\ UNCHANGED << queueVars, batchVars, rateVars, gateVars, functionVars, sessionIdVars,
                  dispatchVars, shutdownVars, retryVars, sendBatchVars, routeVars, tenantVars, orderVars, connectionVars >>

\* ------------------------------------------------------------------------
\* The broker connections of FifoQueueService: senders, session receivers, close()
\* ------------------------------------------------------------------------

MaxConnections == 2

NoConnections ==
  [ senders       |-> [ queueType \in QueueTypes |-> "none" ],  \* this.senders: none, open, closed
    created       |-> [ queueType \in QueueTypes |-> 0 ],       \* senders made by createSender
    sends         |-> [ queueType \in QueueTypes |-> 0 ],       \* sendMessages calls on the sender
    usedClosed    |-> {},      \* queues whose sender got a sendMessages call after its close
    accepted      |-> << >>,   \* the session receivers acceptSession returned: open or closed
    receivers     |-> {},      \* this.receivers: the receivers the service keeps
    clientClosed  |-> FALSE ]  \* serviceBusClient.close() was called

\* sendMessage(queueType, ..): getSender makes the sender of the queue on first use
\* and returns the cached one afterwards, whatever its state; sender.sendMessages
\* is then called on it (it throws on a closed sender, and sendMessage rethrows).
SendThroughSender(queueType) ==
  /\ bus.sends[queueType] < MaxSends
  /\ LET cached == bus.senders[queueType] # "none"
          sender == IF cached THEN bus.senders[queueType]
                    ELSE IF bus.clientClosed THEN "closed" ELSE "open"
     IN  bus' = [ bus EXCEPT
                    !.senders[queueType] = sender,
                    !.created[queueType] = IF cached THEN @ ELSE @ + 1,
                    !.sends[queueType] = @ + 1,
                    !.usedClosed = IF sender = "closed" THEN @ \cup { queueType } ELSE @ ]
  /\ UNCHANGED << queueVars, batchVars, rateVars, gateVars, functionVars, sessionIdVars,
                  dispatchVars, enqueueVars, shutdownVars, retryVars, sendBatchVars,
                  routeVars, tenantVars, orderVars >>

\* createSessionReceiver(queueType): acceptNextSession on the client returns a new
\* receiver to the caller; the service stores it nowhere. On a closed client the
\* call throws and there is no receiver.
createSessionReceiver(queueType) ==
  /\ Len(bus.accepted) < MaxConnections
  /\ ~ bus.clientClosed
  /\ bus' = [ bus EXCEPT !.accepted = Append(@, [ queue |-> queueType, state |-> "open" ]) ]
  /\ UNCHANGED << queueVars, batchVars, rateVars, gateVars, functionVars, sessionIdVars,
                  dispatchVars, enqueueVars, shutdownVars, retryVars, sendBatchVars,
                  routeVars, tenantVars, orderVars >>

\* close(): sender.close() for every sender of this.senders (the map keeps them),
\* receiver.close() for every receiver of this.receivers, serviceBusClient.close(),
\* which closes the connection and with it every sender and receiver made from
\* the client.
close ==
  /\ ~ bus.clientClosed
  /\ bus' = [ bus EXCEPT
                !.senders = [ queueType \in QueueTypes |->
                                IF @[queueType] = "none" THEN "none" ELSE "closed" ],
                !.accepted = [ k \in 1..Len(@) |->
                                 [ @[k] EXCEPT !.state = "closed" ] ],
                !.clientClosed = TRUE ]
  /\ UNCHANGED << queueVars, batchVars, rateVars, gateVars, functionVars, sessionIdVars,
                  dispatchVars, enqueueVars, shutdownVars, retryVars, sendBatchVars,
                  routeVars, tenantVars, orderVars >>

\* ------------------------------------------------------------------------
\* Concurrent POST /api/v1/demographics of one tenant: the order of their messages
\* ------------------------------------------------------------------------

MaxWriters == 3

Writers == 1..MaxWriters

NoWrites ==
  [ pc           |-> [ w \in Writers |-> "idle" ],
    demographics |-> << >>,   \* the tenant's session of demographics-processing-fifo
    webhooks     |-> << >>,   \* the tenant's session of webhook-notifications-fifo
    before       |-> {} ]     \* <<a, b>>: a was answered before the handler of b began

\* The handler of request w begins (its middlewares passed).
StartWrite(w) ==
  /\ writes.pc[w] = "idle"
  /\ writes' = [ writes EXCEPT
                   !.pc[w] = "createDemographic",
                   !.before = @ \cup { << v, w >> : v \in { u \in Writers : writes.pc[u] = "done" } } ]
  /\ UNCHANGED << queueVars, batchVars, rateVars, gateVars, functionVars, sessionIdVars,
                  dispatchVars, enqueueVars, shutdownVars, retryVars, sendBatchVars,
                  routeVars, tenantVars, connectionVars >>

\* await databaseService.createDemographic(demographics); an error ends the request
\* through next(error).
WriteCreateDemographic(w, outcome) ==
  /\ writes.pc[w] = "createDemographic"
  /\ writes' = [ writes EXCEPT
                   !.pc[w] = IF outcome = "ok" THEN "addDemographicsMessage" ELSE "done" ]
  /\ UNCHANGED << queueVars, batchVars, rateVars, gateVars, functionVars, sessionIdVars,
                  dispatchVars, enqueueVars, shutdownVars, retryVars, sendBatchVars,
                  routeVars, tenantVars, connectionVars >>

\* await fifoQueueService.addDemographicsMessage(lawFirm, ..): the broker appends
\* the message to the tenant's session when the send arrives.
WriteAddDemographicsMessage(w, outcome) ==
  /\ writes.pc[w] = "addDemographicsMessage"
  /\ writes' = IF outcome = "ok"
                 THEN [ writes EXCEPT !.pc[w] = "addWebhookMessage",
                                      !.demographics = Append(@, w) ]
                 ELSE [ writes EXCEPT !.pc[w] = "done" ]
  /\ UNCHANGED << queueVars, batchVars, rateVars, gateVars, functionVars, sessionIdVars,
                  dispatchVars, enqueueVars, shutdownVars, retryVars, sendBatchVars,
                  routeVars, tenantVars, connectionVars >>

\* Mutant: the webhook message is sent without waiting for the processing message.
WriteAddWebhookMessageUnordered(w, outcome) ==
  /\ writes.pc[w] \in { "addDemographicsMessage", "addWebhookMessage" }
  /\ writes' = IF outcome = "ok"
                 THEN [ writes EXCEPT !.pc[w] = "done", !.webhooks = Append(@, w) ]
                 ELSE [ writes EXCEPT !.pc[w] = "done" ]
  /\ UNCHANGED << queueVars, batchVars, rateVars, gateVars, functionVars, sessionIdVars,
                  dispatchVars, enqueueVars, shutdownVars, retryVars, sendBatchVars,
                  routeVars, tenantVars, connectionVars >>

\* await fifoQueueService.addWebhookMessage(lawFirm, {event: 'demographics.created'}),
\* then the 201; an error ends the request through next(error).
WriteAddWebhookMessage(w, outcome) ==
  /\ writes.pc[w] = "addWebhookMessage"
  /\ writes' = IF outcome = "ok"
                 THEN [ writes EXCEPT !.pc[w] = "done", !.webhooks = Append(@, w) ]
                 ELSE [ writes EXCEPT !.pc[w] = "done" ]
  /\ UNCHANGED << queueVars, batchVars, rateVars, gateVars, functionVars, sessionIdVars,
                  dispatchVars, enqueueVars, shutdownVars, retryVars, sendBatchVars,
                  routeVars, tenantVars, connectionVars >>

\* ------------------------------------------------------------------------
\* Records of the tenants: POST /api/v1/demographics and GET /api/v1/demographics/:id
\* ------------------------------------------------------------------------

MaxRecords == 3

Tenants == { "firmA", "firmB" }

\* The JSON bodies a client can send: the law_firm field of the record, and
\* possibly a partitionKey field of its own.
RequestBodies ==
  UNION { [ keys -> Tenants ] : keys \in { { "law_firm" }, { "law_firm", "partitionKey" } } }

\* The keys of CreateDemographicsRequestSchema that the model carries.
SchemaKeys == { "law_firm" }

\* Mutant: the schema lets the keys it does not declare through.
CreateDemographicsRequestSchemaPassthrough(body) == body

\* CreateDemographicsRequestSchema.parse(body): a zod object schema keeps the keys
\* it declares and strips the others; partitionKey is not one of its keys.
CreateDemographicsRequestSchemaParse(body) ==
  [ key \in DOMAIN body \cap SchemaKeys |-> body[key] ]

\* {id, partitionKey: auth.lawFirm, ...demographicsData, created_by}: a key of
\* demographicsData replaces the same key written before the spread.
SpreadDemographic(id, lawFirm, demographicsData) ==
  [ id           |-> id,
    partitionKey |-> IF "partitionKey" \in DOMAIN demographicsData
                       THEN demographicsData["partitionKey"] ELSE lawFirm,
    law_firm     |-> demographicsData["law_firm"],
    created_by   |-> lawFirm ]

\* POST /api/v1/demographics by a credential of lawFirm: validationMiddleware
\* replaces req.body by the parsed body, the handler builds the record and
\* createDemographic inserts it. sent is the body as the client sent it, kept
\* beside the row for the properties.
PostDemographic(lawFirm, body) ==
  /\ Cardinality(Demographics) < MaxRecords
  /\ Demographics' = Demographics \cup
       { SpreadDemographic(Cardinality(Demographics) + 1, lawFirm,
                           CreateDemographicsRequestSchemaParse(body))
           @@ ( "sent" :> body ) }
  /\ UNCHANGED lastRead
  /\ UNCHANGED << queueVars, batchVars, rateVars, gateVars, functionVars, sessionIdVars,
                  dispatchVars, enqueueVars, shutdownVars, retryVars, sendBatchVars,
                  routeVars, orderVars, connectionVars >>

NoRead == [ caller |-> None, id |-> 0, recordset |-> {} ]

\* Mutant: the query selects by id only.
getDemographicByIdOnly(id, lawFirm) ==
  { row \in Demographics : row.id = id }

\* SELECT * FROM Demographics WHERE id = @id AND partitionKey = @partitionKey
getDemographicById(id, lawFirm) ==
  { row \in Demographics : row.id = id /\ row.partitionKey = lawFirm }

\* GET /api/v1/demographics/:id by a credential of lawFirm: the row, or 404 when
\* the recordset is empty.
GetDemographic(lawFirm, id) ==
  /\ lastRead' = [ caller |-> lawFirm, id |-> id, recordset |-> getDemographicById(id, lawFirm) ]
  /\ UNCHANGED Demographics
  /\ UNCHANGED << queueVars, batchVars, rateVars, gateVars, functionVars, sessionIdVars,
                  dispatchVars, enqueueVars, shutdownVars, retryVars, sendBatchVars,
                  routeVars, orderVars, connectionVars >>

\* ------------------------------------------------------------------------
\* The route handler of POST /api/v1/demographics/batch, after its middlewares
\* ------------------------------------------------------------------------

MaxItems == 3

NoBatchRequest ==
  [ pc        |-> "idle",
    size      |-> 0,          \* demographics.length
    notify    |-> FALSE,      \* webhook_url && batch_options.notify_on_completion
    i         |-> 0,          \* the loop index, counted from 1
    results   |-> << >>,
    persisted |-> {},         \* the items createDemographic persisted
    enqueued  |-> {},         \* the items whose processing message the broker accepted
    webhook   |-> << >>,      \* the counts in the demographics.batch_completed message
    response  |-> [ status |-> 0, data |-> << >>, successful_count |-> 0, failed_count |-> 0 ] ]

\* The request reaches the route handler with n items.
ReceiveBatch(n, notify_on_completion) ==
  /\ batchRoute.pc = "idle"
  /\ batchRoute' = [ batchRoute EXCEPT !.pc = "createDemographic", !.size = n,
                                       !.notify = notify_on_completion, !.i = 1 ]
  /\ UNCHANGED << queueVars, batchVars, rateVars, gateVars, functionVars, sessionIdVars,
                  dispatchVars, enqueueVars, shutdownVars, retryVars, sendBatchVars,
                  tenantVars, orderVars, connectionVars >>

\* results.filter(r => r.status === status).length
CountStatus(results, status) ==
  Cardinality({ k \in 1..Len(results) : results[k].status = status })

\* res.status(202).json({data: results, metadata: {successful_count, failed_count}})
Accepted202(rq) ==
  [ rq EXCEPT !.pc = "done",
              !.response = [ status           |-> 202,
                             data             |-> rq.results,
                             successful_count |-> CountStatus(rq.results, "accepted"),
                             failed_count     |-> rq.size - CountStatus(rq.results, "accepted") ] ]

\* The end of one turn of the loop with its result pushed: the next item, or after
\* the last item the completion webhook if it is asked for, or the 202.
AfterItem(rq, itemResult) ==
  LET pushed == [ rq EXCEPT !.results = Append(@, itemResult), !.i = @ + 1 ]
  IN  IF rq.i < rq.size THEN [ pushed EXCEPT !.pc = "createDemographic" ]
      ELSE IF rq.notify THEN [ pushed EXCEPT !.pc = "addWebhookMessage" ]
      ELSE Accepted202(pushed)

\* Mutant: the error of an item is not caught: it ends the request.
BatchCreateDemographicFailFast(outcome) ==
  /\ batchRoute.pc = "createDemographic"
  /\ batchRoute' =
       IF outcome = "ok"
         THEN [ batchRoute EXCEPT !.pc = "addDemographicsMessage",
                                  !.persisted = @ \cup { batchRoute.i } ]
         ELSE [ batchRoute EXCEPT !.pc = "done",
                                  !.response.status = errorMiddleware(outcome).status ]
  /\ UNCHANGED << queueVars, batchVars, rateVars, gateVars, functionVars, sessionIdVars,
                  dispatchVars, enqueueVars, shutdownVars, retryVars, sendBatchVars,
                  tenantVars, orderVars, connectionVars >>

\* await databaseService.createDemographic(demographic) inside the try of the
\* item: an error is caught and pushed as {index, status: 'failed'}.
BatchCreateDemographic(outcome) ==
  /\ batchRoute.pc = "createDemographic"
  /\ batchRoute' =
       IF outcome = "ok"
         THEN [ batchRoute EXCEPT !.pc = "addDemographicsMessage",
                                  !.persisted = @ \cup { batchRoute.i } ]
         ELSE AfterItem(batchRoute, [ index |-> batchRoute.i, status |-> "failed" ])
  /\ UNCHANGED << queueVars, batchVars, rateVars, gateVars, functionVars, sessionIdVars,
                  dispatchVars, enqueueVars, shutdownVars, retryVars, sendBatchVars,
                  tenantVars, orderVars, connectionVars >>

\* await fifoQueueService.addDemographicsMessage(..) inside the try of the item,
\* then results.push({index, status: 'accepted'}); an error is caught and pushed
\* as 'failed'.
BatchAddDemographicsMessage(outcome) ==
  /\ batchRoute.pc = "addDemographicsMessage"
  /\ batchRoute' =
       IF outcome = "ok"
         THEN AfterItem([ batchRoute EXCEPT !.enqueued = @ \cup { batchRoute.i } ],
                        [ index |-> batchRoute.i, status |-> "accepted" ])
         ELSE AfterItem(batchRoute, [ index |-> batchRoute.i, status |-> "failed" ])
  /\ UNCHANGED << queueVars, batchVars, rateVars, gateVars, functionVars, sessionIdVars,
                  dispatchVars, enqueueVars, shutdownVars, retryVars, sendBatchVars,
                  tenantVars, orderVars, connectionVars >>

\* await fifoQueueService.addWebhookMessage(.. 'demographics.batch_completed' ..)
\* after the loop, outside the try of the items: an error goes to the outer catch
\* and next(error); otherwise the 202 is sent.
BatchAddWebhookMessage(outcome) ==
  /\ batchRoute.pc = "addWebhookMessage"
  /\ batchRoute' =
       IF outcome = "ok"
         THEN Accepted202([ batchRoute EXCEPT
                              !.webhook = << CountStatus(batchRoute.results, "accepted"),
                                             CountStatus(batchRoute.results, "failed") >> ])
         ELSE [ batchRoute EXCEPT !.pc = "done",
                                  !.response.status = errorMiddleware(outcome).status ]
  /\ UNCHANGED << queueVars, batchVars, rateVars, gateVars, functionVars, sessionIdVars,
                  dispatchVars, enqueueVars, shutdownVars, retryVars, sendBatchVars,
                  tenantVars, orderVars, connectionVars >>

\* ------------------------------------------------------------------------
\* sendMessage and sendMessageBatch on the same list of messages: the Service Bus
\* messages each of them hands to sender.sendMessages
\* ------------------------------------------------------------------------

MaxList == 3

\* 24 * 60 * 60 * 1000
timeToLive == 86400000

\* The fields of a message that its envelope is built from.
BatchMessages ==
  [ sessionId      : { "demographics_a1", "demographics_b_" },
    type           : { "demographics", "webhook" },
    scheduled_for  : { Undefined, "later" } ]

MessageLists == UNION { [ 1..n -> BatchMessages ] : n \in 0..MaxList }

\* The ServiceBusMessage sendMessage builds.
Envelope(fifoMessage) ==
  [ sessionId               |-> fifoMessage.sessionId,
    subject                 |-> fifoMessage.type,
    timeToLive              |-> timeToLive,
    scheduledEnqueueTimeUtc |-> fifoMessage.scheduled_for ]

\* The ServiceBusMessage sendMessageBatch builds: it sets no
\* scheduledEnqueueTimeUtc.
BatchEnvelope(fifoMessage) ==
  [ sessionId               |-> fifoMessage.sessionId,
    subject                 |-> fifoMessage.type,
    timeToLive              |-> timeToLive,
    scheduledEnqueueTimeUtc |-> Undefined ]

\* sendMessage called once per message, in list order.
RECURSIVE sendMessageEach(_)
sendMessageEach(messages) ==
  IF messages = << >> THEN << >>
  ELSE << Envelope(Head(messages)) >> \o sendMessageEach(Tail(messages))

\* sendMessageBatch(queueType, messages, batchSize): for (i = 0; i < length;
\* i += batchSize) the slice (i, i + batchSize) is mapped to envelopes and sent
\* with one sender.sendMessages.
RECURSIVE sendMessageBatch(_, _, _)
sendMessageBatch(messages, i, size) ==
  IF i >= Len(messages) THEN << >>
  ELSE LET last  == IF i + size < Len(messages) THEN i + size ELSE Len(messages)
           batch == [ k \in 1..(last - i) |-> BatchEnvelope(messages[i + k]) ]
       IN  batch \o sendMessageBatch(messages, i + size, size)

\* A list of messages is handed to both.
SendBothWays(messages, size) ==
  /\ wire.messages = << >>
  /\ wire' = [ messages |-> messages,
               single   |-> sendMessageEach(messages),
               batch    |-> sendMessageBatch(messages, 0, size) ]
  /\ UNCHANGED << queueVars, batchVars, rateVars, gateVars, functionVars, sessionIdVars,
                  dispatchVars, enqueueVars, shutdownVars, retryVars, routeVars, tenantVars, orderVars, connectionVars >>

\* ------------------------------------------------------------------------
\* One message of a session queue, with its retry_count, through its deliveries
\* ------------------------------------------------------------------------

\* The largest max_retries a caller of sendMessage passes: addWebhookMessage's 5,
\* and one above the max delivery count of the webhook queue.
MaxRetries == 6

NoTracked ==
  [ state |-> "none", queue |-> None, retry_count |-> 0, max_retries |-> 0,
    deliveryCount |-> 0, abandons |-> 0, failures |-> 0 ]

\* sendMessage(queueType, {retry_count: 0, max_retries, ...}): addDemographicsMessage
\* passes max_retries 3, addWebhookMessage 5, a direct caller any.
SendTracked(queueType, max_retries) ==
  /\ tracked.state = "none"
  /\ tracked' = [ NoTracked EXCEPT !.state = "queued",
                                   !.queue = queueNames[queueType],
                                   !.max_retries = max_retries ]
  /\ UNCHANGED << queueVars, batchVars, rateVars, gateVars, functionVars, sessionIdVars,
                  dispatchVars, enqueueVars, shutdownVars, sendBatchVars, routeVars, tenantVars, orderVars, connectionVars >>

\* The message is delivered to the holder of its session; the broker counts the
\* delivery.
ReceiveTracked ==
  /\ tracked.state = "queued"
  /\ tracked' = [ tracked EXCEPT !.state = "inFlight", !.deliveryCount = @ + 1 ]
  /\ UNCHANGED << queueVars, batchVars, rateVars, gateVars, functionVars, sessionIdVars,
                  dispatchVars, enqueueVars, shutdownVars, sendBatchVars, routeVars, tenantVars, orderVars, connectionVars >>

\* The handler succeeded: complete(msg).
CompleteTracked ==
  /\ tracked.state = "inFlight"
  /\ tracked' = [ tracked EXCEPT !.state = "completed" ]
  /\ UNCHANGED << queueVars, batchVars, rateVars, gateVars, functionVars, sessionIdVars,
                  dispatchVars, enqueueVars, shutdownVars, sendBatchVars, routeVars, tenantVars, orderVars, connectionVars >>

\* Mutant: abandon returns the message to the queue without counting the retry.
AbandonTrackedKeepingCount ==
  /\ tracked.state = "inFlight"
  /\ tracked' =
       IF tracked.deliveryCount > tracked.max_retries
         THEN [ tracked EXCEPT !.state = "deadLettered", !.failures = @ + 1 ]
         ELSE [ tracked EXCEPT !.abandons = @ + 1,
                               !.failures = @ + 1,
                               !.state = IF tracked.deliveryCount >= MaxDeliveryCount(tracked.queue)
                                           THEN "deadLettered" ELSE "queued" ]
  /\ UNCHANGED << queueVars, batchVars, rateVars, gateVars, functionVars, sessionIdVars,
                  dispatchVars, enqueueVars, shutdownVars, sendBatchVars, routeVars, tenantVars, orderVars, connectionVars >>

\* The handler threw (ProcessingFailed, seen from the message): once the retries
\* (the deliveries before this one, plus this failure) exceed max_retries the
\* consumer dead-letters the message; otherwise abandon(msg) increments the retry
\* count and returns the message to the queue, where the broker dead-letters it if
\* its delivery count has reached the max delivery count of the queue.
AbandonTracked ==
  /\ tracked.state = "inFlight"
  /\ tracked' =
       IF tracked.deliveryCount > tracked.max_retries
         THEN [ tracked EXCEPT !.state = "deadLettered", !.failures = @ + 1 ]
         ELSE [ tracked EXCEPT !.retry_count = @ + 1,
                               !.failures = @ + 1,
                               !.abandons = @ + 1,
                               !.state = IF tracked.deliveryCount >= MaxDeliveryCount(tracked.queue)
                                           THEN "deadLettered" ELSE "queued" ]
  /\ UNCHANGED << queueVars, batchVars, rateVars, gateVars, functionVars, sessionIdVars,
                  dispatchVars, enqueueVars, shutdownVars, sendBatchVars, routeVars, tenantVars, orderVars, connectionVars >>

\* The session lock is lost while the message is in flight (SessionLockLost, seen
\* from the message): the broker releases the message; nothing is abandoned.
LockLostTracked ==
  /\ tracked.state = "inFlight"
  /\ tracked' = [ tracked EXCEPT
                    !.state = IF tracked.deliveryCount >= MaxDeliveryCount(tracked.queue)
                                THEN "deadLettered" ELSE "queued" ]
  /\ UNCHANGED << queueVars, batchVars, rateVars, gateVars, functionVars, sessionIdVars,
                  dispatchVars, enqueueVars, shutdownVars, sendBatchVars, routeVars, tenantVars, orderVars, connectionVars >>

\* ------------------------------------------------------------------------
\* The server process (startServer, process.on('SIGTERM')) and the session
\* receivers it has created through createSessionReceiver, one per session queue
\* ------------------------------------------------------------------------

\* A client opens a connection to the listening server, or a connection ends.
\* After server.close() no new connection is accepted.
HttpConnection(open) ==
  /\ IF open
       THEN proc.phase = "listening" /\ proc.connections < MaxConnections
       ELSE proc.phase # "exited" /\ proc.connections > 0
  /\ proc' = [ proc EXCEPT !.connections = IF open THEN @ + 1 ELSE @ - 1 ]
  /\ UNCHANGED << queueVars, batchVars, rateVars, gateVars, functionVars, sessionIdVars,
                  dispatchVars, enqueueVars, retryVars, sendBatchVars, routeVars, tenantVars, orderVars, connectionVars >>

\* createSessionReceiver(queueType): the receiver is returned to the caller; it is
\* not put into this.receivers. Nothing in it looks at whether the process is
\* shutting down.
AcceptSession(qt) ==
  /\ proc.phase # "exited"
  /\ qt \notin proc.receivers
  /\ proc.released[qt] = "none"
  /\ proc' = [ proc EXCEPT !.receivers = @ \cup { qt },
                           !.acceptedAfter = IF proc.phase = "closing" THEN @ \cup { qt } ELSE @ ]
  /\ UNCHANGED << queueVars, batchVars, rateVars, gateVars, functionVars, sessionIdVars,
                  dispatchVars, enqueueVars, retryVars, sendBatchVars, routeVars, tenantVars, orderVars, connectionVars >>

\* A message of the session is received and its handler starts.
HandlerStarts(qt) ==
  /\ proc.phase # "exited"
  /\ qt \in proc.receivers \ proc.inFlight
  /\ proc' = [ proc EXCEPT !.inFlight = @ \cup { qt } ]
  /\ UNCHANGED << queueVars, batchVars, rateVars, gateVars, functionVars, sessionIdVars,
                  dispatchVars, enqueueVars, retryVars, sendBatchVars, routeVars, tenantVars, orderVars, connectionVars >>

\* The handler ends and the message is settled.
HandlerCompletes(qt) ==
  /\ proc.phase # "exited"
  /\ qt \in proc.inFlight
  /\ proc' = [ proc EXCEPT !.inFlight = @ \ { qt } ]
  /\ UNCHANGED << queueVars, batchVars, rateVars, gateVars, functionVars, sessionIdVars,
                  dispatchVars, enqueueVars, retryVars, sendBatchVars, routeVars, tenantVars, orderVars, connectionVars >>

\* process.on('SIGTERM'): server.close(callback) stops the HTTP server from
\* accepting connections. FifoQueueService.close is not called.
Sigterm ==
  /\ proc.phase = "listening"
  /\ proc' = [ proc EXCEPT !.phase = "closing" ]
  /\ UNCHANGED << queueVars, batchVars, rateVars, gateVars, functionVars, sessionIdVars,
                  dispatchVars, enqueueVars, retryVars, sendBatchVars, routeVars, tenantVars, orderVars, connectionVars >>

\* The callback of server.close, once the last connection has ended:
\* process.exit(0). The handlers that are running end with the process; the
\* session locks of its receivers are left to the broker.
ServerClosed ==
  /\ proc.phase = "closing"
  /\ proc.connections = 0
  /\ proc' = [ proc EXCEPT !.phase = "exited",
                           !.killed = proc.inFlight,
                           !.inFlight = {} ]
  /\ UNCHANGED << queueVars, batchVars, rateVars, gateVars, functionVars, sessionIdVars,
                  dispatchVars, enqueueVars, retryVars, sendBatchVars, routeVars, tenantVars, orderVars, connectionVars >>

\* The broker takes back the session lock of a receiver whose process is gone,
\* when the lock is no longer renewed.
BrokerReclaims(qt) ==
  /\ proc.phase = "exited"
  /\ qt \in proc.receivers
  /\ proc' = [ proc EXCEPT !.receivers = @ \ { qt },
                           !.released = [ @ EXCEPT ![qt] = "lockExpired" ] ]
  /\ UNCHANGED << queueVars, batchVars, rateVars, gateVars, functionVars, sessionIdVars,
                  dispatchVars, enqueueVars, retryVars, sendBatchVars, routeVars, tenantVars, orderVars, connectionVars >>

\* ------------------------------------------------------------------------
\* One message of the batch consumer: the callback of batch.map,
\* processBatchMessage, processBatchWebhookMessage and the settlement by the host
\* ------------------------------------------------------------------------
NoBody == [ parses |-> FALSE, type |-> None, hasUrl |-> FALSE, responseOk |-> FALSE ]

\* No message delivered yet.
NoDelivery ==
  [ pc          |-> "idle",
    body        |-> NoBody,
    dispatch    |-> "none",   \* what the switch did: a handler called, a warning logged
    posts       |-> 0,        \* the HTTP POSTs issued by processBatchWebhookMessage
    errorLogged |-> FALSE,    \* the catch of the callback logged 'Batch message failed'
    success     |-> FALSE,    \* the success field of the value of the callback
    acked       |-> 0 ]       \* times the host completed the message

\* Mutant: the switch has no default branch, every type goes to a handler.
DispatchEverything(type) == "handler"

\* switch (type): a type of the table goes to its handler, any other is logged
\* with a warning.
Dispatch(type) == IF type \in DispatchTable THEN "handler" ELSE "warn"

\* The trigger invokes processBatchMessages with the message.
DeliverMessage(body) ==
  /\ delivery.pc = "idle"
  /\ delivery' = [ NoDelivery EXCEPT !.pc = "callback", !.body = body ]
  /\ UNCHANGED << queueVars, batchVars, rateVars, gateVars, functionVars, sessionIdVars, enqueueVars, shutdownVars, retryVars, sendBatchVars, routeVars, tenantVars, orderVars, connectionVars >>

\* The callback of batch.map up to its first await on the network: JSON.parse,
\* processBatchMessage, the switch; the email and sms handlers only log; the
\* webhook handler throws without a URL and issues the POST otherwise. Whatever
\* throws is caught, logged and turned into {success: false}.
RunCallback ==
  /\ delivery.pc = "callback"
  /\ LET body == delivery.body
     IN  IF ~ body.parses
           THEN delivery' = [ delivery EXCEPT !.pc = "fulfilled", !.errorLogged = TRUE ]
         ELSE IF Dispatch(body.type) = "warn"
           THEN delivery' = [ delivery EXCEPT !.pc = "fulfilled", !.dispatch = "warn",
                                              !.success = TRUE ]
         ELSE IF body.type # "webhook"
           THEN delivery' = [ delivery EXCEPT !.pc = "fulfilled", !.dispatch = "handler",
                                              !.success = TRUE ]
         ELSE IF ~ body.hasUrl
           THEN delivery' = [ delivery EXCEPT !.pc = "fulfilled", !.dispatch = "handler",
                                              !.errorLogged = TRUE ]
         ELSE delivery' = [ delivery EXCEPT !.pc = "fetch", !.dispatch = "handler",
                                            !.posts = @ + 1 ]
  /\ UNCHANGED << queueVars, batchVars, rateVars, gateVars, functionVars, sessionIdVars, enqueueVars, shutdownVars, retryVars, sendBatchVars, routeVars, tenantVars, orderVars, connectionVars >>

\* Mutant: a POST that fails is issued once more before the handler gives up.
FetchSettlesWithRetry ==
  /\ delivery.pc = "fetch"
  /\ IF delivery.body.responseOk
       THEN delivery' = [ delivery EXCEPT !.pc = "fulfilled", !.success = TRUE ]
       ELSE IF delivery.posts < 2
         THEN delivery' = [ delivery EXCEPT !.posts = @ + 1 ]
         ELSE delivery' = [ delivery EXCEPT !.pc = "fulfilled", !.errorLogged = TRUE ]
  /\ UNCHANGED << queueVars, batchVars, rateVars, gateVars, functionVars, sessionIdVars, enqueueVars, shutdownVars, retryVars, sendBatchVars, routeVars, tenantVars, orderVars, connectionVars >>

\* await fetch(..) settles: a 2xx answer ends the handler; any other answer, and a
\* timeout of the POST, make it throw, which the callback catches.
FetchSettles ==
  /\ delivery.pc = "fetch"
  /\ IF delivery.body.responseOk
       THEN delivery' = [ delivery EXCEPT !.pc = "fulfilled", !.success = TRUE ]
       ELSE delivery' = [ delivery EXCEPT !.pc = "fulfilled", !.errorLogged = TRUE ]
  /\ UNCHANGED << queueVars, batchVars, rateVars, gateVars, functionVars, sessionIdVars, enqueueVars, shutdownVars, retryVars, sendBatchVars, routeVars, tenantVars, orderVars, connectionVars >>

\* Promise.allSettled resumes, the loop ends, processBatchMessages returns.
FunctionReturns ==
  /\ delivery.pc = "fulfilled"
  /\ delivery' = [ delivery EXCEPT !.pc = "returned" ]
  /\ UNCHANGED << queueVars, batchVars, rateVars, gateVars, functionVars, sessionIdVars, enqueueVars, shutdownVars, retryVars, sendBatchVars, routeVars, tenantVars, orderVars, connectionVars >>

\* The function returned: the host completes the message of the invocation.
HostCompletes ==
  /\ delivery.pc = "returned"
  /\ delivery' = [ delivery EXCEPT !.pc = "settled", !.acked = @ + 1 ]
  /\ UNCHANGED << queueVars, batchVars, rateVars, gateVars, functionVars, sessionIdVars, enqueueVars, shutdownVars, retryVars, sendBatchVars, routeVars, tenantVars, orderVars, connectionVars >>

\* ------------------------------------------------------------------------
\* Calls of generateSessionId
\* ------------------------------------------------------------------------
SessionTypes == { TypeOfQueue(qt) : qt \in SessionQueueTypes }

NoGenerated == [ type |-> None, identifier |-> << >>, sessionId |-> << >> ]

\* this.generateSessionId(type, identifier) is called and returns.
GenerateSessionId(type, identifier) ==
  /\ generated' =
       [ previous |-> generated.latest,
         latest   |-> [ type       |-> type,
                        identifier |-> identifier,
                        sessionId  |-> generateSessionId(type, identifier) ] ]
  /\ UNCHANGED << queueVars, batchVars, rateVars, gateVars, functionVars, dispatchVars, enqueueVars, shutdownVars, retryVars, sendBatchVars, routeVars, tenantVars, orderVars, connectionVars >>

\* ------------------------------------------------------------------------
\* Initial state and specifications
\* ------------------------------------------------------------------------
Init ==
  /\ senders = {}
  /\ sent = [ k \in SessionKeys |-> << >> ]
  /\ sessionQueue = [ k \in SessionKeys |-> << >> ]
  /\ scheduled = {}
  /\ deadLettered = {}
  /\ holding = [ c \in Consumers |-> NoSession ]
  /\ current = [ c \in Consumers |-> NoMessage ]
  /\ batchSize = 0
  /\ chunkStart = 0
  /\ pcBatch = "idle"
  /\ result = << >>
  /\ logged = << >>
  /\ acked = << >>
  /\ now = 0
  /\ counters = [ k \in ApiKeyIds |-> [ w \in WindowTypes |-> [ windowStart |-> 0, count |-> 0 ] ] ]
  /\ admittedAt = [ k \in ApiKeyIds |-> [ t \in 0..MaxTime |-> 0 ] ]
  /\ lastCall = NoCall
  /\ req = [ r \in Requests |-> NewRequest ]
  /\ usageCount = [ k \in ApiKeyIds |-> 0 ]
  /\ idempotencyRecords = [ s \in IdempotencySlots |-> NoRecord ]
  /\ storePending = {}
  /\ demographics = {}
  /\ invocation = [ f \in Functions |-> NewInvocation ]
  /\ generated = [ previous |-> NoGenerated, latest |-> NoGenerated ]
  /\ delivery = NoDelivery
  /\ outbox = [ messages |-> << >>, payload |-> None, settled |-> "none" ]
  /\ tracked = NoTracked
  /\ batchRoute = NoBatchRequest
  /\ Demographics = {}
  /\ lastRead = NoRead
  /\ writes = NoWrites
  /\ bus = NoConnections
  /\ wire = [ messages |-> << >>, single |-> << >>, batch |-> << >> ]
  /\ proc = [ phase         |-> "listening",
              connections   |-> 0,
              receivers     |-> {},
              inFlight      |-> {},
              acceptedAfter |-> {},
              killed        |-> {},
              released      |-> [ qt \in SessionQueueTypes |-> "none" ] ]

QueueNext ==
  \/ \E lf \in LawFirms, p \in Priorities : AddDemographicsMessage(lf, p)
  \/ \E lf \in LawFirms, p \in Priorities : AddWebhookMessage(lf, p)
  \/ \E lf \in LawFirms : SendScheduledMessage(lf)
  \/ ActivateScheduled
  \/ \E c \in Consumers, qt \in SessionQueueTypes, sid \in SessionIds \cup { NoSessionId } :
       CreateSessionReceiver(c, qt, sid)
  \/ \E c \in Consumers : ReceiveMessage(c)
  \/ \E c \in Consumers : CompleteMessage(c)
  \/ \E c \in Consumers : ProcessingFailed(c)
  \/ \E c \in Consumers : SessionLockLost(c)
  \/ \E c \in Consumers : StaleHandlerEnds(c)
  \/ \E c \in Consumers : CloseReceiver(c)

BatchNext ==
  \/ \E n \in 0..MaxBatch : TriggerBatch(n)
  \/ StartChunk
  \/ \E k \in 1..MaxBatch : SettleHandler(k)
  \/ AwaitChunk
  \/ ReturnFromBatch
  \/ HostSettles

ConnectionsNext ==
  \/ \E queueType \in QueueTypes : SendThroughSender(queueType)
  \/ \E queueType \in { "demographics", "webhooks" } : createSessionReceiver(queueType)
  \/ close

OrderNext ==
  \/ \E w \in Writers : StartWrite(w)
  \/ \E w \in Writers, outcome \in Outcomes : WriteCreateDemographic(w, outcome)
  \/ \E w \in Writers, outcome \in SendOutcomes : WriteAddDemographicsMessage(w, outcome)
  \/ \E w \in Writers, outcome \in SendOutcomes : WriteAddWebhookMessage(w, outcome)

TenantNext ==
  \/ \E lawFirm \in Tenants, body \in RequestBodies : PostDemographic(lawFirm, body)
  \/ \E lawFirm \in Tenants, id \in 1..MaxRecords : GetDemographic(lawFirm, id)

BatchRouteNext ==
  \/ \E n \in 1..MaxItems, notify_on_completion \in BOOLEAN :
        ReceiveBatch(n, notify_on_completion)
  \/ \E outcome \in Outcomes : BatchCreateDemographic(outcome)
  \/ \E outcome \in SendOutcomes : BatchAddDemographicsMessage(outcome)
  \/ \E outcome \in SendOutcomes : BatchAddWebhookMessage(outcome)

SendBatchNext ==
  \E messages \in MessageLists, size \in 1..MaxList : SendBothWays(messages, size)

RetryNext ==
  \/ \E queueType \in SessionQueueTypes, max_retries \in 0..MaxRetries :
       SendTracked(queueType, max_retries)
  \/ ReceiveTracked
  \/ CompleteTracked
  \/ AbandonTracked
  \/ LockLostTracked

ShutdownNext ==
  \/ \E open \in BOOLEAN : HttpConnection(open)
  \/ \E qt \in SessionQueueTypes : AcceptSession(qt)
  \/ \E qt \in SessionQueueTypes : HandlerStarts(qt)
  \/ \E qt \in SessionQueueTypes : HandlerCompletes(qt)
  \/ Sigterm
  \/ ServerClosed
  \/ \E qt \in SessionQueueTypes : BrokerReclaims(qt)

EnqueueNext ==
  \E queueType \in QueueTypes, payload \in Payloads, brokerOk \in BOOLEAN :
    SendPayload(queueType, payload, brokerOk)

RateNext ==
  \/ \E k \in ApiKeyIds : RateLimitCall(k)
  \/ Tick

GateNext ==
  \/ \E r \in Requests, h \in ApiKeyHeaders : ReceiveRequest(r, h)
  \/ \E r \in Requests, throws \in BOOLEAN : ValidateApiKey(r, throws)
  \/ \E r \in Requests, throws \in BOOLEAN, key \in IdempotencyKeys, valid \in BOOLEAN :
       CheckRateLimit(r, throws, key, valid)
  \/ \E r \in Requests, throws \in BOOLEAN, valid \in BOOLEAN : CheckIdempotency(r, throws, valid)
  \/ \E r \in Requests, outcome \in Outcomes : CreateDemographic(r, outcome)
  \/ \E r \in Requests, outcome \in SendOutcomes : HandlerAddDemographicsMessage(r, outcome)
  \/ \E r \in Requests, outcome \in SendOutcomes : HandlerAddWebhookMessage(r, outcome)
  \/ \E r \in Requests, throws \in BOOLEAN : StoreIdempotencyRecord(r, throws)
  \/ Tick

FunctionNext ==
  \/ \E h \in ApiKeyHeaders : SubmitDemographics(h)
  \/ \E throws \in BOOLEAN : SubmitValidateApiKey(throws)
  \/ \E throws \in BOOLEAN : SubmitCheckRateLimit(throws)
  \/ \E outcome \in BodyOutcomes : SubmitParseBody(outcome)
  \/ \E outcome \in SendOutcomes : SubmitCreateDemographic(outcome)
  \/ \E outcome \in SendOutcomes : SubmitAddWebhookMessage(outcome)
  \/ \E h \in ApiKeyHeaders : RetrieveDemographics(h)
  \/ \E throws \in BOOLEAN : RetrieveValidateApiKey(throws)
  \/ \E throws \in BOOLEAN : RetrieveCheckRateLimit(throws)
  \/ \E outcome \in SendOutcomes : RetrieveGetDemographics(outcome)
  \/ \E h \in ApiKeyHeaders : InvokeAnonymous(h)
  \/ \E outcome \in SendOutcomes : AnonymousHandler(outcome)
  \/ Tick

DispatchNext ==
  \/ \E body \in MessageBodies : DeliverMessage(body)
  \/ RunCallback
  \/ FetchSettles
  \/ FunctionReturns
  \/ HostCompletes

SessionIdNext ==
  \E type \in SessionTypes, identifier \in Identifiers : GenerateSessionId(type, identifier)

\* The session queues, their senders and their consumers.
SpecQueue == Init /\ [][QueueNext]_vars

\* One invocation of the batch consumer.
SpecBatch == Init /\ [][BatchNext]_vars

\* One invocation of the batch consumer on the event loop: a continuation that is
\* ready runs, and every handler in flight settles (its fetch has a hard timeout).
SpecBatchFair ==
  /\ Init /\ [][BatchNext]_vars
  /\ WF_vars(StartChunk)
  /\ \A k \in 1..MaxBatch : WF_vars(SettleHandler(k))
  /\ WF_vars(AwaitChunk)
  /\ WF_vars(ReturnFromBatch)

\* The rate limiter under calls for two credentials, over time.
SpecRate == Init /\ [][RateNext]_vars

\* Two requests to POST /api/v1/demographics, over time.
SpecGate == Init /\ [][GateNext]_vars

\* One invocation of each HTTP function, over time.
SpecFunction == Init /\ [][FunctionNext]_vars

\* The senders and session receivers of the service, and close().
SpecConnections == Init /\ [][ConnectionsNext]_vars

\* Concurrent write requests of one tenant.
SpecOrder == Init /\ [][OrderNext]_vars

\* Writes and reads of demographics records by the tenants.
SpecTenant == Init /\ [][TenantNext]_vars

\* One request to POST /api/v1/demographics/batch.
SpecBatchRoute == Init /\ [][BatchRouteNext]_vars

\* One list of messages sent through sendMessage and through sendMessageBatch.
SpecSendBatch == Init /\ [][SendBatchNext]_vars

\* One message of a session queue through its deliveries.
SpecRetry == Init /\ [][RetryNext]_vars

\* The server process with its session receivers, through SIGTERM.
SpecShutdown == Init /\ [][ShutdownNext]_vars

\* Calls of sendMessage with any payload.
SpecEnqueue == Init /\ [][EnqueueNext]_vars

\* One message through the batch consumer.
SpecDispatch == Init /\ [][DispatchNext]_vars

\* Calls of generateSessionId with any type and identifier.
SpecSessionId == Init /\ [][SessionIdNext]_vars

\* ------------------------------------------------------------------------
\* Properties of the session queues
\* ------------------------------------------------------------------------

InQueue(key, n) == \E i \in 1..Len(sessionQueue[key]) : sessionQueue[key][i].id[3] = n

QueuedMessage(key, n) ==
  LET i == CHOOSE j \in 1..Len(sessionQueue[key]) : sessionQueue[key][j].id[3] = n
  IN  sessionQueue[key][i]

IsScheduled(key, n) == \E m \in scheduled : m.id = << key[1], key[2], n >>

\* The n-th message sent to a session has been delivered to a consumer at least once.
Delivered(key, n) ==
  /\ n <= Len(sent[key])
  /\ ~ IsScheduled(key, n)
  /\ InQueue(key, n) => QueuedMessage(key, n).deliveryCount > 0

AddOrigins == { "addDemographicsMessage", "addWebhookMessage" }

\* C1: of two messages enqueued through addDemographicsMessage / addWebhookMessage
\* with the same session key, the one enqueued later is never delivered to a
\* consumer before the one enqueued first has been delivered.
C1_SessionFifo ==
  \A key \in SessionKeys :
    \A n1, n2 \in 1..Len(sent[key]) :
      ( /\ n1 < n2
        /\ sent[key][n1] \in AddOrigins
        /\ sent[key][n2] \in AddOrigins
        /\ Delivered(key, n2) )
      => Delivered(key, n1)

\* Two messages of one session, both sent through an add* method, both delivered,
\* the first of them more than once.
C1_Witness ==
  \E key \in SessionKeys :
    /\ Len(sent[key]) >= 2
    /\ sent[key][1] \in AddOrigins
    /\ sent[key][2] \in AddOrigins
    /\ Delivered(key, 2)
    /\ \E m \in deadLettered : m.id = << key[1], key[2], 1 >>

SessionOf(messageId) == << messageId[1], messageId[2] >>

\* C2 as stated: two consumers are never running handlers on messages of the same
\* session at the same time.
C2_NoConcurrentProcessing ==
  \A c1, c2 \in Consumers :
    ( /\ c1 # c2
      /\ current[c1] # NoMessage
      /\ current[c2] # NoMessage )
    => SessionOf(current[c1]) # SessionOf(current[c2])

\* C2 (amended): at most one consumer holds the lock of a session at any time,
\* whether the session was accepted by id or as the next available one.
C2_OneLockHolder ==
  \A c1, c2 \in Consumers :
    ( c1 # c2 /\ holding[c1] # NoSession ) => holding[c1] # holding[c2]

\* One consumer is running a handler under its session lock while the other
\* consumer holds the lock of another session of the same queue.
C2_Witness ==
  \E c1, c2 \in Consumers :
    /\ c1 # c2
    /\ holding[c1] # NoSession
    /\ holding[c2] # NoSession
    /\ holding[c1][1] = holding[c2][1]
    /\ current[c1] # NoMessage
    /\ current[c2] # NoMessage

\* C9 as stated: a message sent with max_retries = 3 reaches the dead-letter
\* queue after exactly 4 deliveries (3 redeliveries).
C9_DeadLetterAfterFourDeliveries ==
  \A m \in deadLettered : m.max_retries = 3 => m.deliveryCount = 4

\* Consumer c loses the lock of its session while a message is in flight: the only
\* step that takes the session from a consumer with an unsettled message.
LockLostInFlight(c) ==
  holding[c] # NoSession /\ holding'[c] = NoSession /\ current[c] # NoMessage

\* A message is delivered to consumer c.
DeliveredTo(c) == current'[c] # NoMessage /\ current'[c] # current[c]

\* Deliveries go to the holder of the session lock, head of the session first.
DeliveryInOrderToHolder ==
  \A c \in Consumers :
    DeliveredTo(c)
      => /\ holding[c] # NoSession
         /\ current'[c] = Head(sessionQueue[holding[c]]).id
         /\ \A c2 \in Consumers \ { c } : holding[c2] # holding[c]

\* C29 as stated: when a consumer loses its session lock, the session becomes
\* available to another consumer and every message that was in flight is
\* delivered again: it is still the head of its session; deliveries are in FIFO
\* order and to one consumer at a time.
C29_LockLossRedelivers ==
  [][ /\ \A c \in Consumers :
           LockLostInFlight(c)
             => /\ \A c2 \in Consumers : holding'[c2] # holding[c]
                /\ sessionQueue'[holding[c]] # << >>
                /\ Head(sessionQueue'[holding[c]]).id = current[c]
      /\ DeliveryInOrderToHolder ]_vars

\* C29 (amended): when a consumer loses its session lock, the session becomes
\* available to another consumer; the message that was in flight stays the head
\* of its session, to be delivered again before any later message, unless its
\* delivery count has reached the max delivery count of the queue: then it is
\* dead-lettered and the session goes on with the next message. Deliveries go to
\* the lock holder only, head first.
C29_LockLossReleases ==
  [][ /\ \A c \in Consumers :
           LockLostInFlight(c)
             => LET key == holding[c]
                    m   == Head(sessionQueue[key])
                IN  /\ \A c2 \in Consumers : holding'[c2] # key
                    /\ m.id = current[c]
                    /\ IF m.deliveryCount < MaxDeliveryCount(key[1])
                         THEN sessionQueue'[key] = sessionQueue[key]
                              /\ deadLettered' = deadLettered
                         ELSE sessionQueue'[key] = Tail(sessionQueue[key])
                              /\ deadLettered' = deadLettered \cup { m }
      /\ DeliveryInOrderToHolder ]_vars

\* A consumer lost its session lock with a message in flight, and the other
\* consumer has taken the session and been delivered the same message, while a
\* later message of the session waits behind it.
C29_Witness ==
  \E c1, c2 \in Consumers :
    /\ c1 # c2
    /\ holding[c1] = NoSession
    /\ current[c1] # NoMessage
    /\ holding[c2] = SessionOf(current[c1])
    /\ current[c2] = current[c1]
    /\ Len(sessionQueue[holding[c2]]) >= 2

C35_BatchEqualsSingleSends == wire.batch = wire.single

\* C31: for each queue name at most one sender is ever created, and after close()
\* every sender and every session receiver the service opened is closed and none
\* of them is used again.
C31_ConnectionsDoNotLeak ==
  /\ \A queueType \in QueueTypes : bus.created[queueType] <= 1
  /\ bus.clientClosed =>
       /\ \A queueType \in QueueTypes : bus.senders[queueType] \in { "none", "closed" }
       /\ \A k \in 1..Len(bus.accepted) : bus.accepted[k].state = "closed"
  /\ bus.usedClosed = {}

\* The place of the message of request w in a session, 0 if it is not there.
PlaceIn(session, w) ==
  IF \E k \in 1..Len(session) : session[k] = w
    THEN CHOOSE k \in 1..Len(session) : session[k] = w
    ELSE 0

\* Both messages of both requests are in their sessions.
BothEnqueued(a, b) ==
  /\ PlaceIn(writes.demographics, a) > 0 /\ PlaceIn(writes.demographics, b) > 0
  /\ PlaceIn(writes.webhooks, a) > 0 /\ PlaceIn(writes.webhooks, b) > 0

\* C38 as stated: for two write requests of the same tenant, the order of their
\* webhook messages in the webhook session equals the order of their processing
\* messages in the demographics session, for every interleaving.
C38_WebhookOrderEqualsProcessingOrder ==
  \A a, b \in Writers :
    ( BothEnqueued(a, b)
      /\ PlaceIn(writes.demographics, a) < PlaceIn(writes.demographics, b) )
    => PlaceIn(writes.webhooks, a) < PlaceIn(writes.webhooks, b)

\* C38 (amended): the webhook message of a request is enqueued only after its own
\* processing message, and when request a was answered before the handler of
\* request b began, a's messages precede b's in both sessions. For handlers that
\* overlap, the two sessions are ordered by the interleaving of the awaits and
\* their orders need not agree.
C38_OrderedPerRequestAndWhenSequential ==
  /\ \A w \in Writers :
       PlaceIn(writes.webhooks, w) > 0 => PlaceIn(writes.demographics, w) > 0
  /\ \A a, b \in Writers :
       ( << a, b >> \in writes.before /\ BothEnqueued(a, b) )
       => /\ PlaceIn(writes.demographics, a) < PlaceIn(writes.demographics, b)
          /\ PlaceIn(writes.webhooks, a) < PlaceIn(writes.webhooks, b)

\* Request 1 was answered before request 2 began and both have both messages
\* enqueued, while request 3 overlapped request 2 and its webhook message overtook
\* the webhook message of request 2.
C38_Witness ==
  /\ << 1, 2 >> \in writes.before
  /\ BothEnqueued(1, 2)
  /\ BothEnqueued(2, 3)
  /\ PlaceIn(writes.demographics, 2) < PlaceIn(writes.demographics, 3)
  /\ PlaceIn(writes.webhooks, 3) < PlaceIn(writes.webhooks, 2)

ResultsExact ==
  /\ \A k \in 1..Len(batchRoute.results) :
       /\ batchRoute.results[k].index = k
       /\ batchRoute.results[k].status = "accepted"
            <=> ( k \in batchRoute.persisted /\ k \in batchRoute.enqueued )
  /\ batchRoute.pc \in { "addWebhookMessage", "done" }
       => Len(batchRoute.results) = batchRoute.size

\* The 202 lists the results and its counts add up to the batch size.
ResponseListsResults ==
  /\ batchRoute.response.data = batchRoute.results
  /\ batchRoute.response.successful_count = CountStatus(batchRoute.results, "accepted")
  /\ batchRoute.response.successful_count + batchRoute.response.failed_count = batchRoute.size

\* C36 as stated: item failures are isolated, and the response lists exactly one
\* result per submitted item in index order with successful_count + failed_count
\* = batch_size, an item being 'accepted' only if it was persisted and enqueued.
C36_ItemFailuresIsolated ==
  /\ ResultsExact
  /\ batchRoute.pc = "done" => ( batchRoute.response.status = 202 /\ ResponseListsResults )

\* C36 (amended): item failures are isolated: every item is processed whatever
\* happened to the items before it, with one result per item in index order,
\* 'accepted' only if the item was persisted and enqueued. The response is the 202
\* that lists these results, with successful_count + failed_count = batch_size,
\* unless the completion webhook was asked for and its enqueue failed: then the
\* request ends with the error response although every item was processed.
C36_ItemFailuresIsolatedUnlessNotifyFails ==
  /\ ResultsExact
  /\ batchRoute.pc = "done"
       => IF batchRoute.response.status = 202
            THEN ResponseListsResults
            ELSE batchRoute.notify /\ batchRoute.response.status \in { 500, 503 }

\* A batch of three was answered 202 with its first item failed at persisting,
\* its second failed at enqueueing and its third accepted.
C36_Witness ==
  /\ batchRoute.response.status = 202
  /\ batchRoute.size = 3
  /\ batchRoute.persisted = { 2, 3 }
  /\ batchRoute.enqueued = { 3 }
  /\ batchRoute.response.failed_count = 2

\* ------------------------------------------------------------------------
\* Properties of the batch consumer
\* ------------------------------------------------------------------------

\* C10: once an invocation of processBatchMessages has been settled, every handler of
\* every chunk has run to completion, whatever the other handlers of its chunk did,
\* and every message whose handler succeeded has been acknowledged exactly once.
C10_BatchIsolation ==
  /\ \A k \in 1..batchSize : acked[k] <= 1
  /\ pcBatch = "settled" =>
       \A k \in 1..batchSize :
         /\ result[k].state = "fulfilled"
         /\ result[k].success => acked[k] = 1

\* A chunk of 8 messages in which the handler of index 3 threw and the 7 others
\* succeeded and were acknowledged once.
C10_Witness ==
  /\ pcBatch = "settled"
  /\ batchSize >= 8
  /\ result[4].state = "fulfilled" /\ ~ result[4].success
  /\ \A k \in (1..8) \ { 4 } : result[k].success /\ acked[k] = 1

\* C11 as stated: a message of the batch whose handler failed is not acknowledged
\* (so that the broker redelivers it).
C11_FailedNotAcknowledged ==
  \A k \in 1..batchSize :
    ( result[k].state = "fulfilled" /\ ~ result[k].success ) => acked[k] = 0

\* The handlers in flight.
InFlight == { k \in 1..batchSize : result[k].state = "running" }

\* The chunk a message belongs to, counted from 0.
ChunkOf(k) == (k - 1) \div concurrencyLimit

\* C12: at every moment at most concurrencyLimit (8) handlers are in flight, and a
\* handler of a later chunk has started only if every handler of every earlier
\* chunk has settled.
C12_BoundedParallelism ==
  /\ Cardinality(InFlight) <= concurrencyLimit
  /\ \A j, k \in 1..batchSize :
       ( ChunkOf(j) < ChunkOf(k) /\ result[k].state # "pending" )
         => result[j].state = "fulfilled"

\* A batch of more than 8 messages: the first chunk of 8 has settled and been
\* logged, and the handler of the ninth message is in flight.
C12_Witness ==
  /\ batchSize > concurrencyLimit
  /\ Len(logged) = 1
  /\ logged[1][1] + logged[1][2] = concurrencyLimit
  /\ result[concurrencyLimit + 1].state = "running"

\* The messages of the i-th chunk of the invocation.
NthChunk(i) == Chunk((i - 1) * concurrencyLimit)

\* C33 as stated: for every chunk the logged aggregate is exact: successful is the
\* number of messages of the chunk whose handler completed, failed the number
\* whose handler threw, and they add up to the size of the chunk.
C33_AggregateExact ==
  \A i \in 1..Len(logged) :
    /\ logged[i][1] = Cardinality({ k \in NthChunk(i) : result[k].success })
    /\ logged[i][2] = Cardinality({ k \in NthChunk(i) : ~ result[k].success })
    /\ logged[i][1] + logged[i][2] = Cardinality(NthChunk(i))

\* The messages whose handler is started by the step.
Dispatched == { k \in 1..batchSize : result[k].state = "pending" /\ result'[k].state = "running" }

\* C34: the batch is cut into consecutive chunks of at most 8 messages that cover
\* it exactly: a step dispatches the next min(8, rest) messages in line, a message
\* that was dispatched is never dispatched again, and the invocation returns only
\* when every message has been dispatched and has settled; for every batch size
\* from 0.
C34_ChunksCoverBatch ==
  [][ batchSize' = batchSize
        => /\ \A k \in 1..batchSize :
                /\ result[k].state # "pending" => result'[k].state # "pending"
                /\ result[k].state = "fulfilled" => result'[k] = result[k]
           /\ Dispatched # {}
                => /\ Cardinality(Dispatched) <= concurrencyLimit
                   /\ LET done == Cardinality({ j \in 1..batchSize :
                                                  result[j].state = "fulfilled" })
                      IN  /\ \A j \in 1..done : result[j].state = "fulfilled"
                          /\ Dispatched = { k \in 1..batchSize :
                                              done < k /\ k <= done + concurrencyLimit }
           /\ pcBatch' = "returned"
                => \A k \in 1..batchSize : result'[k].state = "fulfilled" ]_vars

\* An invocation with 9 messages has returned after a chunk of 8 and a chunk of 1.
C34_Witness ==
  /\ pcBatch = "returned"
  /\ batchSize = concurrencyLimit + 1
  /\ Len(logged) = 2
  /\ logged[2][1] + logged[2][2] = 1

\* C39: every invocation of processBatchMessages terminates: once it has been
\* triggered, it returns.
C39_BatchTerminates == ( pcBatch = "loop" ) ~> ( pcBatch = "returned" )

\* An invocation with more than one chunk has returned although every handler
\* failed.
C39_Witness ==
  /\ pcBatch = "returned"
  /\ batchSize > concurrencyLimit
  /\ \A k \in 1..batchSize : result[k].state = "fulfilled" /\ ~ result[k].success

\* ------------------------------------------------------------------------
\* Properties of the rate limiter
\* ------------------------------------------------------------------------

\* The count of window w that the latest call of checkRateLimit found.
CountBefore(w) == EffectiveCount(lastCall.before[w], w, lastCall.time)

LimitOf(w) == WindowLimit(apiKeys[lastCall.keyId], w)

RECURSIVE SumAdmitted(_, _)
SumAdmitted(k, T) ==
  IF T = {} THEN 0
  ELSE LET t == CHOOSE x \in T : TRUE IN admittedAt[k][t] + SumAdmitted(k, T \ { t })

\* The requests of credential k admitted in the current window of type w.
AdmittedInWindow(k, w) ==
  SumAdmitted(k, { t \in 0..MaxTime :
                     /\ counters[k][w].windowStart <= t
                     /\ t < counters[k][w].windowStart + windowDuration[w] })

C7_RejectedConsumesNoQuota ==
  lastCall.keyId # None =>
    /\ ~ lastCall.result.allowed => counters[lastCall.keyId] = lastCall.before
    /\ counters[lastCall.keyId] # lastCall.before =>
         /\ lastCall.result.allowed
         /\ \A w \in WindowTypes :
              /\ CountBefore(w) < LimitOf(w)
              /\ counters[lastCall.keyId][w].count = CountBefore(w) + 1

\* A rejected call that found requests counted in every window, one of the
\* windows being full.
C7_Witness ==
  /\ lastCall.keyId # None
  /\ ~ lastCall.result.allowed
  /\ \A w \in WindowTypes : lastCall.before[w].count > 0
  /\ counters[lastCall.keyId] = lastCall.before

\* The windows that the latest call of checkRateLimit found exhausted.
ExhaustedBefore == { w \in WindowTypes : CountBefore(w) >= LimitOf(w) }

\* C8: a call of checkRateLimit is allowed only if the count of every one of the
\* four windows is below its limit; one exhausted window is enough to reject.
C8_AllowedOnlyWithinEveryWindow ==
  lastCall.keyId # None =>
    ( lastCall.result.allowed <=> ExhaustedBefore = {} )

\* A call rejected although only the day window was exhausted: the burst, minute
\* and hour windows still had capacity.
C8_Witness ==
  /\ lastCall.keyId # None
  /\ ~ lastCall.result.allowed
  /\ ExhaustedBefore = { "day" }

\* ------------------------------------------------------------------------
\* Properties of the request gate
\* ------------------------------------------------------------------------

\* C3 as stated: a request that reaches the idempotency lookup while an unexpired
\* record is stored for its tenant and key is answered with the stored status and
\* body, and the route handler is not entered.
C3_ReplayReturnsStoredResponse ==
  \A r \in Requests :
    ( req[r].pc = "done" /\ req[r].sawRecord # NoResponse )
      => /\ req[r].response = req[r].sawRecord
         /\ ~ req[r].handler

\* The requests of a tenant with an idempotency key whose record was persisted.
Effects(lawFirm, key) ==
  { r \in Requests :
      /\ req[r].created
      /\ req[r].idempotencyKey = key
      /\ apiKeys[req[r].auth].law_firm = lawFirm }

\* C4 as stated: for every tenant and idempotency key, the effect of the route
\* handler (the record persisted) happens at most once.
C4_AtMostOneEffect ==
  \A s \in IdempotencySlots : Cardinality(Effects(s[1], s[2])) <= 1

\* The requests whose record was persisted.
Created == { r \in Requests : req[r].created }

\* C13: the route handler is entered only by a request whose credential was
\* validated and that the rate limiter allowed; a request answered 401 (missing or
\* invalid key) never reached the rate limiter; a request the limiter rejected is
\* answered 429; an exception in the gate is answered 500 AUTH_SYSTEM_ERROR; and a
\* request stopped by the gate has persisted no record and enqueued no message
\* (every persisted record, and every pair of messages, belongs to a request that
\* entered the handler).
C13_GateStopsBeforeHandler ==
  /\ \A r \in Requests :
       /\ req[r].handler => ( req[r].apiKey \in ApiKeyIds /\ req[r].rateLimit = "allowed" )
       /\ req[r].created => req[r].handler
       /\ req[r].response.code \in { "MISSING_API_KEY", "INVALID_API_KEY" }
            => /\ req[r].response.status = 401
               /\ req[r].rateLimit = "notCalled"
               /\ ~ req[r].handler
       /\ req[r].rateLimit = "rejected"
            => /\ req[r].response = Response(429, "RATE_LIMIT_EXCEEDED", None)
               /\ ~ req[r].handler
       /\ req[r].rateLimit = "threw"
            => /\ req[r].response = Response(500, "AUTH_SYSTEM_ERROR", None)
               /\ ~ req[r].handler
       /\ ( req[r].pc = "done" /\ req[r].apiKey = None )
            => /\ req[r].response.status \in { 401, 500 }
               /\ ~ req[r].handler
  /\ \A d \in demographics : d.id \in Created
  /\ TotalSent <= 2 * Cardinality(Created)

\* One request was rejected by the rate limiter and answered 429 without entering
\* the handler, while another request of the same credential was served.
C13_Witness ==
  \E r1, r2 \in Requests :
    /\ req[r1].response.status = 201
    /\ req[r2].apiKey = req[r1].apiKey
    /\ req[r2].rateLimit = "rejected"
    /\ req[r2].response.status = 429
    /\ ~ req[r2].handler

\* C15 as stated: an idempotency record is created only on the successful
\* completion of a write: every stored response has a 2xx status.
C15_RecordOnlyOnSuccess ==
  \A s \in IdempotencySlots :
    idempotencyRecords[s].response # NoResponse
      => idempotencyRecords[s].response.status \in 200..299

\* C16 as stated: an idempotency record is never updated: no step changes the
\* stored response of an unexpired record.
C16_RecordNeverUpdated ==
  [][ \A s \in IdempotencySlots :
        ( idempotencyRecords[s].response # NoResponse /\ now < idempotencyRecords[s].expiresAt )
          => idempotencyRecords'[s].response = idempotencyRecords[s].response ]_vars

\* C17: a request whose lookup is made when the record of its tenant and key has
\* expired is told that no record exists, and is processed as a new request: it
\* goes on to validation and, with a valid body, enters the route handler.
C17_ExpiredTreatedAsAbsent ==
  \A r \in Requests :
    req[r].sawExpired
      => /\ req[r].sawRecord = NoResponse
         /\ req[r].handler \/ req[r].response.code = "VALIDATION_ERROR"

\* A request found the expired record of an earlier request with its key, and
\* persisted a record of its own.
C17_Witness ==
  \E r \in Requests :
    /\ req[r].sawExpired
    /\ req[r].created
    /\ req[r].response = Response(201, "accepted", r)

\* C18: a response that carries the record of another request was stored by a
\* request of the same tenant: no request is answered with the cached response of
\* another tenant.
C18_TenantScoped ==
  \A r \in Requests :
    req[r].response.id \in Requests \ { r }
      => apiKeys[req[req[r].response.id].auth].law_firm = apiKeys[req[r].auth].law_firm

\* A request used a key under which another tenant had an unexpired record; it
\* found no record and was served as a new request.
C18_Witness ==
  \E r \in Requests :
    /\ req[r].sawOther
    /\ req[r].sawRecord = NoResponse
    /\ req[r].response = Response(201, "accepted", r)

\* C14 as stated: every response of a call that the rate limiter answered carries
\* the headers X-RateLimit-Limit, X-RateLimit-Remaining, X-RateLimit-Reset and
\* X-RateLimit-Window, whatever the handler did, and every 429 carries Retry-After
\* as well.
C14_RateLimitHeadersOnEveryResponse ==
  \A f \in Functions :
    ( invocation[f].pc = "done" /\ invocation[f].rateLimit \in { "allowed", "rejected" } )
      => /\ RateLimitHeaders \subseteq invocation[f].response.headers
         /\ invocation[f].response.status = 429
              => "Retry-After" \in invocation[f].response.headers

\* The setImmediate callbacks of request r that have not run yet.
PendingStores(r) == { p \in storePending : p.request = r }

\* C22: a request whose X-Idempotency-Key is present but is not a version-4 UUID
\* is answered 400 INVALID_IDEMPOTENCY_KEY; the idempotency cache is not read for
\* it (no lookup) nor written (res.json is not overridden, no store is scheduled),
\* and the route handler does not run. Only such requests get that answer.
C22_InvalidKeyRejectedBeforeCache ==
  \A r \in Requests :
    /\ ( req[r].idempotencyKey # NoKey /\ req[r].idempotencyKey[1] # "4" )
         => /\ req[r].response = Response(400, "INVALID_IDEMPOTENCY_KEY", None)
            /\ ~ req[r].lookup
            /\ ~ req[r].capture /\ PendingStores(r) = {}
            /\ ~ req[r].handler /\ ~ req[r].created
    /\ req[r].response.code = "INVALID_IDEMPOTENCY_KEY"
         => ( req[r].idempotencyKey # NoKey /\ req[r].idempotencyKey[1] # "4" )

\* A request with a version-1 UUID as its key was answered 400 while the store
\* held a record of the same tenant.
C22_Witness ==
  \E r \in Requests :
    /\ req[r].idempotencyKey = << "1", "8" >>
    /\ req[r].response.status = 400
    /\ \E s \in IdempotencySlots :
         s[1] = apiKeys[req[r].auth].law_firm /\ idempotencyRecords[s].response # NoResponse

\* C23: storing the idempotency record is fire-and-forget: while a store is still
\* to run, the response it will store has already been sent; and no step, the
\* store and its failure included, changes a response that was sent.
C23_StoreIsFireAndForget ==
  [][ \A r \in Requests :
        /\ \A p \in PendingStores(r) :
             req[r].pc = "done" /\ req[r].response = p.response
        /\ req[r].pc = "done"
             => ( req'[r].pc = "done" /\ req'[r].response = req[r].response ) ]_vars

\* The store of a request failed: its 201 was sent, the callback has run, and no
\* record is stored under its key.
C23_Witness ==
  \E r \in Requests :
    /\ req[r].response = Response(201, "accepted", r)
    /\ req[r].capture
    /\ PendingStores(r) = {}
    /\ idempotencyRecords[<< apiKeys[req[r].auth].law_firm, req[r].idempotencyKey >>] = NoRecord

\* C24 as stated: a failure of the idempotency lookup is not swallowed: the
\* request ends with a 503 or 500 error and the route handler is not run.
C24_LookupFailureSurfaced ==
  \A r \in Requests :
    req[r].lookupThrew
      => /\ ~ req[r].handler
         /\ req[r].response.status \in { 500, 503 }

\* C25: with allowAnonymous the gate bypasses authentication and rate limiting:
\* whatever the x-api-key header, no credential is validated and the rate limiter
\* is not called, the request always passes to the business logic (it is never
\* answered 401 or 429), and the step through the gate changes neither a
\* rate-limit counter nor a usage counter.
C25_AnonymousBypassesGate ==
  [][ /\ invocation.anonymous.pc # "idle"
         => /\ invocation.anonymous.handler
            /\ invocation.anonymous.apiKey = None
            /\ invocation.anonymous.rateLimit = "notCalled"
            /\ invocation.anonymous.response.status \notin { 401, 429 }
      /\ invocation'.anonymous # invocation.anonymous
         => ( counters' = counters /\ usageCount' = usageCount
              /\ invocation'.anonymous.pc # "idle" ) ]_vars

\* The anonymous endpoint was called without an API key and served, while the
\* credential of another call had used up a window of its rate limit.
C25_Witness ==
  /\ invocation.anonymous.apiKeyHeader = NoHeader
  /\ invocation.anonymous.response.status = 200
  /\ \E f \in Functions : invocation[f].rateLimit = "rejected"

\* C26: a message with an empty payload is rejected at enqueue and nothing is
\* sent to the broker: the broker never holds a message whose payload is empty,
\* and a call with an empty payload never resolves.
C26_EmptyPayloadRejected ==
  /\ \A i \in 1..Len(outbox.messages) :
       outbox.messages[i].payload \notin { "emptyObject", "undefined" }
  /\ outbox.payload \in { "emptyObject", "undefined" } => outbox.settled # "resolved"

C30_GracefulShutdown ==
  /\ proc.acceptedAfter = {}
  /\ proc.killed = {}
  /\ proc.phase = "exited" => proc.receivers = {}
  /\ \A qt \in SessionQueueTypes : proc.released[qt] \in { "none", "closed" }

\* ------------------------------------------------------------------------
\* Properties of the dispatch of one message
\* ------------------------------------------------------------------------

\* The callback of the message has ended.
CallbackEnded == delivery.pc \in { "fulfilled", "returned", "settled" }

\* C21: a message whose type is not in the dispatch table is logged with a
\* warning and acknowledged: no handler is called for it, nothing is posted, its
\* callback reports success, and the host completes it once, so that the broker
\* does not deliver it again.
C21_UnknownTypeWarnedAndAcknowledged ==
  ( CallbackEnded /\ delivery.body.parses /\ delivery.body.type \notin DispatchTable )
    => /\ delivery.dispatch = "warn"
       /\ delivery.posts = 0
       /\ delivery.success /\ ~ delivery.errorLogged
       /\ delivery.pc = "settled" => delivery.acked = 1

\* A message of type unknown_type was warned about and completed.
C21_Witness ==
  /\ delivery.pc = "settled"
  /\ delivery.body.parses
  /\ delivery.body.type = "unknown_type"
  /\ delivery.dispatch = "warn"
  /\ delivery.acked = 1

\* C27: the webhook dispatcher performs no retries: at most one POST is issued for
\* a message; without a URL none is issued and the dispatcher throws; a non-2xx
\* answer or a timeout makes it throw after the one POST; what it throws reaches
\* the callback that invoked it, which logs the failure and reports {success: false}.
C27_NoRetryFailurePropagates ==
  /\ delivery.posts <= 1
  /\ ( CallbackEnded /\ delivery.body.parses /\ delivery.body.type = "webhook" )
       => /\ delivery.posts = IF delivery.body.hasUrl THEN 1 ELSE 0
          /\ delivery.success <=> ( delivery.body.hasUrl /\ delivery.body.responseOk )
          /\ delivery.errorLogged <=> ~ delivery.success

\* A webhook whose endpoint did not answer 2xx: one POST, the failure logged by the
\* callback.
C27_Witness ==
  /\ CallbackEnded
  /\ delivery.body.parses /\ delivery.body.type = "webhook"
  /\ delivery.body.hasUrl /\ ~ delivery.body.responseOk
  /\ delivery.posts = 1
  /\ delivery.errorLogged /\ ~ delivery.success

\* ------------------------------------------------------------------------
\* Properties of the session ids
\* ------------------------------------------------------------------------

\* C19 as stated: generateSessionId is a deterministic and collision-free function
\* of (type, identifier): two calls with the same type return the same session id
\* exactly if their identifiers are equal.
C19_CollisionFree ==
  ( generated.previous # NoGenerated /\ generated.previous.type = generated.latest.type )
    => ( generated.previous.identifier = generated.latest.identifier
           <=> generated.previous.sessionId = generated.latest.sessionId )

\* The session a law firm's messages of a session queue are placed in.
SessionKeyOf(queueType, lawFirm) ==
  << queueNames[queueType], generateSessionId(TypeOfQueue(queueType), lawFirm) >>

\* C20 as stated: tenants do not block each other: while a consumer holds the
\* session of tenant t1 with an unfinished message, the session of another tenant
\* t2 is not under that lock, so that another consumer can accept it and receive
\* and complete the messages of t2.
C20_TenantsDoNotBlock ==
  \A t1, t2 \in LawFirms, qt \in SessionQueueTypes, c \in Consumers :
    ( t1 # t2 /\ holding[c] = SessionKeyOf(qt, t1) /\ current[c] # NoMessage )
      => holding[c] # SessionKeyOf(qt, t2)

====
